---- MODULE Spec2Model ----
(***************************************************************************)
(* chat-lol: the Convex backend of a peer-to-peer chat.  The tables        *)
(* (sessions, friendRequests, friendships, connectionRequests) are the     *)
(* state; every mutation and query handler is one atomic action (Convex    *)
(* runs each handler as a serializable transaction).                       *)
(*                                                                         *)
(* A handler that throws (ConvexError) rolls its transaction back: the     *)
(* tables stay as they were.  What a call answers in a given state is an   *)
(* operator (...Outcome): the handler's own error message, verbatim, or    *)
(* "ok".  Queries read the tables and write nothing: they are operators.   *)
(***************************************************************************)
EXTENDS Integers, Sequences, FiniteSets, TLC

\* ---------------------------------------------------------------- bounds
MaxRequests == 2        \* connectionRequests rows ever inserted
MaxFriendRequests == 1  \* friendRequests rows ever inserted
MaxTicks == 2           \* advances of the clock
MaxPings == 2           \* livePings rows ever inserted
MaxFriendRows == 3      \* friendRequests rows ever inserted, friend graph alone
MaxUsers == 3           \* users rows ever inserted
MaxConnections == 2     \* peerConnections rows ever inserted
MaxAccepts == 2         \* incoming offers the client ever accepts
MaxReplies == 2         \* replyToConnectionRequest calls of one mounted chat

\* ------------------------------------------------------- program constants
\* webrtc_signaling.ts:258  Date.now() - (5 * 60 * 1000)
EXPIRY_MS == 5 * 60 * 1000
\* sessions.ts:227  Date.now() - (60 * 60 * 1000), also sessions.ts:155, 192
ONE_HOUR_MS == 60 * 60 * 1000
\* friends.ts:364  setTimeout(resolve, 3000)
PROBE_WAIT_MS == 3000

\* ------------------------------------------------------------ input sets
\* The accounts.  signUp is not part of this model: the users table holds
\* these three rows from the start, and a user's bearer token is identified
\* with the user (tokens are unique random strings, auth.ts:42).
Users == {"alice", "bob", "carol"}
BadToken == "badtoken"             \* a token no users row carries
Tokens == Users \cup {BadToken}
UnknownName == "nobody"            \* a username no users row carries
Usernames == Users \cup {UnknownName}
\* users._id values, with the order `<` compares them by
UserId == [alice |-> 1, bob |-> 2, carol |-> 3]
Offers == {"offer1"}
Answers == {"answer1", "answer2"}  \* opaque WebRTC answers
NoData == "none"                   \* an optional field that is not set
\* Who attaches a client, in this order: the k-th createSession call is made
\* by SessionPlan[k], so bob holds two sessions (two devices) and every other
\* account one.
SessionPlan == <<"alice", "bob", "bob", "carol">>
ExpiryPlan == <<"alice", "bob">>    \* the same, with one client each
SessionIds == 1..Len(SessionPlan)  \* session handles a caller may name
RequestIds == 1..MaxRequests       \* request ids a caller may name
\* Who runs the friend operations where carol stays a stranger
FriendTokens == {"alice", "bob", BadToken}
FriendNames == {"alice", "bob", UnknownName}
TickSteps == {1, EXPIRY_MS}        \* how far one Tick moves Date.now()
\* The same where sessions age: one client each, and the clock moves by a
\* millisecond or by the hour of the session sweep
LivenessPlan == <<"alice", "bob", "carol">>
ProbePlan == <<"alice", "bob", "bob">>   \* the probed account holds two clients
ClientPlan == <<"alice", "alice">>       \* alice's browser initializes twice
ClientToken == "alice"                   \* authStorage.getAuth().token there
PING_PERIOD_MS == 30000
SessionTickSteps == {1, ONE_HOUR_MS}
PingIds == 1..MaxPings             \* livePings ids a caller may name
PingHandles == 1..Len(ExpiryPlan)  \* session handles a ping may name

VARIABLES
    sessions,           \* table sessions: set of rows
    nextSession,        \* the next fresh session handle
    friendRequests,     \* table friendRequests: rows in creation order
    friendships,        \* table friendships: rows in creation order
    connectionRequests, \* table connectionRequests: set of rows
    nextRequest,        \* the next fresh connectionRequests _id
    now,                \* Date.now()
    ticks,              \* how often the clock advanced
    sweptAt,            \* history: Date.now() of the last expiry sweep, -1
                        \* before the first
    livePings,          \* table livePings: set of rows
    nextPing,           \* the next fresh livePings _id
    probes,             \* getFriendActiveSessions calls that sent their
                        \* pings and wait for the answers
    hook,               \* useSession of alice's browser: sessionId,
                        \* isSessionActive, pingIntervalRef (0 for null)
    intervals,          \* the setInterval timers of useSession not cleared,
                        \* each named by the session handle it pings
    pingFailures,       \* timers with a rejected updateSessionPing whose
                        \* catch block has not run yet
    initialized,        \* handles createSession returned to initializeSession
                        \* and whose continuation has run
    chat,               \* SimpleWebRTCChat of alice as initiator: requestId,
                        \* the last result of useQuery, the answer applied
    users,              \* table users: rows in creation order
    peerConnections,    \* table peerConnections: set of rows
    nextConnection,     \* the next fresh connectionId
    activeConnection,   \* MainChatInterface of alice: useState, NoPeer for null
    pendingConnection,  \* the same
    isFriendSelectorOpen,   \* the same
    processedRequests,  \* processedRequestsRef.current
    acceptedOffers,     \* history: the connectionIds the incoming offers
                        \* effect handed to handleConnectionEstablished
    startedChats,       \* connectionIds createConnectionOffer returned to
                        \* handleStartChat and whose continuation has run
    receiver,           \* SimpleWebRTCChat as receiver: mounted, the props
                        \* offerData and requestId, actualRequestId,
                        \* peerConnectionRef set, hasProcessedOfferRef
    answering,          \* processIncomingOffer calls waiting in createAnswer,
                        \* each with the request id it captured
    replies             \* replyToConnectionRequest calls issued since the mount

\* The state of the liveness prober
pingVars == <<livePings, nextPing, probes>>

\* The accounts
accountVars == <<users>>

\* The peerConnections signaling path
peerVars == <<peerConnections, nextConnection>>

\* MainChatInterface of alice's browser
mainVars == <<activeConnection, pendingConnection, isFriendSelectorOpen,
              processedRequests, acceptedOffers, startedChats>>

\* SimpleWebRTCChat mounted as receiver
receiverVars == <<receiver, answering, replies>>

\* The state of alice's browser
clientVars == <<hook, intervals, pingFailures, initialized, chat,
                mainVars, receiverVars>>

vars == <<sessions, nextSession, friendRequests, friendships,
          connectionRequests, nextRequest, now, ticks, sweptAt,
          livePings, nextPing, probes,
          hook, intervals, pingFailures, initialized, chat,
          users, peerConnections, nextConnection,
          activeConnection, pendingConnection, isFriendSelectorOpen,
          processedRequests, acceptedOffers, startedChats,
          receiver, answering, replies>>

OK == "ok"

\* ------------------------------------------------------------- sessions
NoSession == [sessionId |-> 0, userId |-> "", isActive |-> FALSE, lastPing |-> 0]

\* ctx.db.query("users").withIndex("by_token", q => q.eq("token", t)).first()
UserByToken(tok) == IF tok \in Users THEN tok ELSE ""

\* query("sessions").withIndex("by_sessionId", ...).first()
SessionById(sid) ==
    IF \E s \in sessions : s.sessionId = sid
    THEN CHOOSE s \in sessions : s.sessionId = sid
    ELSE NoSession

\* query("sessions").withIndex("by_userToken", q => q.eq("userToken", tok))
\*   .filter(q => q.eq(q.field("isActive"), true)).first()
\* The index is ordered by creation, so .first() is the oldest such row;
\* handles are handed out in creation order.
FirstActiveSession(tok) ==
    LET mine == {s \in sessions : s.userId = tok /\ s.isActive}
    IN  IF mine = {} THEN NoSession
        ELSE CHOOSE s \in mine : \A t \in mine : s.sessionId <= t.sessionId

\* sessions.ts:15-43  createSession
CreateSessionOutcome(tok) ==
    IF UserByToken(tok) = "" THEN "Invalid user token" ELSE OK

CreateSession(tok) ==
    /\ CreateSessionOutcome(tok) = OK
    /\ sessions' = sessions \cup
           {[sessionId |-> nextSession, userId |-> UserByToken(tok),
             isActive |-> TRUE, lastPing |-> now]}
    /\ nextSession' = nextSession + 1
    /\ UNCHANGED <<clientVars, accountVars, peerVars, pingVars, friendRequests, friendships, connectionRequests,
                   nextRequest, now, ticks, sweptAt>>

\* Mutant: updateSessionPing without the comparison of the row's userToken
UpdatePingOutcome_NoOwnerCheck(tok, sessionId) ==
    IF UserByToken(tok) = "" THEN "Invalid user token"
    ELSE IF SessionById(sessionId) = NoSession THEN "Session not found"
    ELSE OK

\* Mutant: updateSessionPing without the check that the row exists
UpdatePingOutcome_NoSessionCheck(tok, sessionId) ==
    IF UserByToken(tok) = "" THEN "Invalid user token"
    ELSE IF SessionById(sessionId).userId # tok
         THEN "Session does not belong to this user"
    ELSE OK

\* sessions.ts:49-70  the checks of updateSessionPing
UpdatePingOutcome(tok, sessionId) ==
    IF UserByToken(tok) = "" THEN "Invalid user token"
    ELSE IF SessionById(sessionId) = NoSession THEN "Session not found"
    ELSE IF SessionById(sessionId).userId # tok
         THEN "Session does not belong to this user"
    ELSE OK

\* sessions.ts:45-81  updateSessionPing
UpdateSessionPing(tok, sessionId) ==
    IF UpdatePingOutcome(tok, sessionId) = OK
    THEN /\ sessions' = (sessions \ {SessionById(sessionId)}) \cup
                {[SessionById(sessionId) EXCEPT !.lastPing = now,
                                                !.isActive = TRUE]}
         /\ UNCHANGED <<clientVars, accountVars, peerVars, pingVars, nextSession, friendRequests, friendships,
                        connectionRequests, nextRequest, now, ticks, sweptAt>>
    ELSE UNCHANGED vars

\* Mutant: deactivateSession without the comparison of the row's userToken
DeactivateOutcome_NoOwnerCheck(tok, sessionId) == OK

\* sessions.ts:86-97  the checks of deactivateSession (the token is compared
\* with the row's userToken and never looked up in users)
DeactivateOutcome(tok, sessionId) ==
    IF SessionById(sessionId) = NoSession THEN OK
    ELSE IF SessionById(sessionId).userId # tok
         THEN "Session does not belong to this user"
    ELSE OK

\* sessions.ts:83-103  deactivateSession
DeactivateSession(tok, sessionId) ==
    IF DeactivateOutcome(tok, sessionId) = OK
    THEN /\ sessions' = sessions \ {SessionById(sessionId)}
         /\ UNCHANGED <<clientVars, accountVars, peerVars, pingVars, nextSession, friendRequests, friendships,
                        connectionRequests, nextRequest, now, ticks, sweptAt>>
    ELSE UNCHANGED vars

\* sessions.ts:108-115  the one check of getUserSessions
UserSessionsOutcome(tok) ==
    IF UserByToken(tok) = "" THEN "Invalid user token" ELSE OK

\* sessions.ts:105-129  getUserSessions: the rows returned
GetUserSessions(tok) ==
    IF UserSessionsOutcome(tok) = OK
    THEN {[sessionId |-> s.sessionId, lastPing |-> s.lastPing] :
             s \in {t \in sessions : t.userId = UserByToken(tok) /\ t.isActive}}
    ELSE {}

\* sessions.ts:227-232  the rows cleanupOldSessions selects
OldSessions == {s \in sessions : s.lastPing < now - ONE_HOUR_MS}

\* sessions.ts:225-240  cleanupOldSessions (takes no token)
CleanupOldSessions ==
    /\ sessions' = sessions \ OldSessions
    /\ UNCHANGED <<clientVars, accountVars, peerVars, pingVars, nextSession, friendRequests, friendships,
                   connectionRequests, nextRequest, now, ticks, sweptAt>>

\* ------------------------------------------------------------ friend graph
\* friends.ts:318-328 and webrtc_signaling.ts:6-16 (the same helper twice)
VerifyFriendship(userId1, userId2) ==
    \E i \in 1..Len(friendships) :
        \/ friendships[i].user1Id = userId1 /\ friendships[i].user2Id = userId2
        \/ friendships[i].user1Id = userId2 /\ friendships[i].user2Id = userId1

\* query("users").withIndex("by_username", ...).first()
UserByName(name) == IF name \in Users THEN name ELSE ""

\* query("friendRequests").withIndex("by_users",
\*   q => q.eq("fromUserId", a).eq("toUserId", b)).first(): 0 when there is none
FirstRequestFromTo(a, b) ==
    LET hits == {i \in 1..Len(friendRequests) :
                    friendRequests[i].fromUserId = a /\ friendRequests[i].toUserId = b}
    IN  IF hits = {} THEN 0 ELSE CHOOSE i \in hits : \A j \in hits : i <= j

\* friends.ts:53-59  first(from, to) || first(to, from)
ExistingRequest(from, to) ==
    IF FirstRequestFromTo(from, to) # 0 THEN FirstRequestFromTo(from, to)
    ELSE FirstRequestFromTo(to, from)

\* friends.ts:16-65  the checks of sendFriendRequest (its failures are
\* returned as {success: false, error}, not thrown)
SendFriendOutcome(tok, toUsername) ==
    IF UserByToken(tok) = "" THEN "Invalid user token"
    ELSE IF UserByName(toUsername) = "" THEN "User not found"
    ELSE IF UserByToken(tok) = UserByName(toUsername)
         THEN "Cannot send friend request to yourself"
    ELSE IF VerifyFriendship(UserByToken(tok), UserByName(toUsername))
         THEN "Already friends with this user"
    ELSE IF /\ ExistingRequest(UserByToken(tok), UserByName(toUsername)) # 0
            /\ friendRequests[ExistingRequest(UserByToken(tok),
                                              UserByName(toUsername))].status = "pending"
         THEN "Friend request already exists"
    ELSE OK

\* friends.ts:8-82  sendFriendRequest
SendFriendRequest(tok, toUsername) ==
    IF SendFriendOutcome(tok, toUsername) = OK
    THEN /\ friendRequests' = Append(friendRequests,
                [fromUserId |-> UserByToken(tok), toUserId |-> UserByName(toUsername),
                 status |-> "pending"])
         /\ UNCHANGED <<clientVars, accountVars, peerVars, pingVars, sessions, nextSession, friendships, connectionRequests,
                        nextRequest, now, ticks, sweptAt>>
    ELSE UNCHANGED vars

\* Mutant: respondToFriendRequest without the check of the recipient
RespondFriendOutcome_NoRecipientCheck(tok, requestId) ==
    IF UserByToken(tok) = "" THEN "Invalid user token"
    ELSE IF requestId \notin 1..Len(friendRequests) THEN "Friend request not found"
    ELSE IF friendRequests[requestId].status # "pending"
         THEN "Friend request already responded to"
    ELSE OK

\* friends.ts:92-115  the checks of respondToFriendRequest
RespondFriendOutcome(tok, requestId) ==
    IF UserByToken(tok) = "" THEN "Invalid user token"
    ELSE IF requestId \notin 1..Len(friendRequests) THEN "Friend request not found"
    ELSE IF friendRequests[requestId].toUserId # UserByToken(tok)
         THEN "Unauthorized: This friend request is not for you"
    ELSE IF friendRequests[requestId].status # "pending"
         THEN "Friend request already responded to"
    ELSE OK

\* Mutant: the friendships row with the sender first
CanonicalEdge_SenderFirst(a, b) == [user1Id |-> a, user2Id |-> b]

\* friends.ts:125-127  lower id first
CanonicalEdge(a, b) ==
    [user1Id |-> IF UserId[a] < UserId[b] THEN a ELSE b,
     user2Id |-> IF UserId[a] < UserId[b] THEN b ELSE a]

\* Mutant: respondToFriendRequest inserting the friendships row on every
\* response
RespondToFriendRequest_EdgeOnAnyResponse(tok, requestId, response) ==
    IF RespondFriendOutcome(tok, requestId) = OK
    THEN /\ friendRequests' = [friendRequests EXCEPT ![requestId].status = response]
         /\ friendships' =
              Append(friendships,
                     CanonicalEdge(friendRequests[requestId].fromUserId,
                                   friendRequests[requestId].toUserId))
         /\ UNCHANGED <<clientVars, accountVars, peerVars, pingVars, sessions, nextSession, connectionRequests, nextRequest,
                        now, ticks, sweptAt>>
    ELSE UNCHANGED vars

\* friends.ts:85-138  respondToFriendRequest
RespondToFriendRequest(tok, requestId, response) ==
    IF RespondFriendOutcome(tok, requestId) = OK
    THEN /\ friendRequests' = [friendRequests EXCEPT ![requestId].status = response]
         /\ friendships' =
              IF response = "accepted"
              THEN Append(friendships,
                          CanonicalEdge(friendRequests[requestId].fromUserId,
                                        friendRequests[requestId].toUserId))
              ELSE friendships
         /\ UNCHANGED <<clientVars, accountVars, peerVars, pingVars, sessions, nextSession, connectionRequests, nextRequest,
                        now, ticks, sweptAt>>
    ELSE UNCHANGED vars

\* friends.ts:278-284  the first friendships row in either order: 0 when none
FirstFriendship(a, b) ==
    LET fwd == {i \in 1..Len(friendships) :
                   friendships[i].user1Id = a /\ friendships[i].user2Id = b}
        bwd == {i \in 1..Len(friendships) :
                   friendships[i].user1Id = b /\ friendships[i].user2Id = a}
    IN  IF fwd # {} THEN CHOOSE i \in fwd : \A j \in fwd : i <= j
        ELSE IF bwd # {} THEN CHOOSE i \in bwd : \A j \in bwd : i <= j
        ELSE 0

\* ctx.db.delete of the i-th row
RemoveAt(seq, i) == SubSeq(seq, 1, i - 1) \o SubSeq(seq, i + 1, Len(seq))

\* friends.ts:268-288  the checks of removeFriend
RemoveFriendOutcome(tok, friendUserId) ==
    IF UserByToken(tok) = "" THEN "Invalid user token"
    ELSE IF FirstFriendship(UserByToken(tok), friendUserId) = 0
         THEN "Friendship not found"
    ELSE OK

\* friends.ts:262-293  removeFriend
RemoveFriend(tok, friendUserId) ==
    IF RemoveFriendOutcome(tok, friendUserId) = OK
    THEN /\ friendships' =
              RemoveAt(friendships, FirstFriendship(UserByToken(tok), friendUserId))
         /\ UNCHANGED <<clientVars, accountVars, peerVars, pingVars, sessions, nextSession, friendRequests, connectionRequests,
                        nextRequest, now, ticks, sweptAt>>
    ELSE UNCHANGED vars

\* ---------------------------------------------------- connection requests
\* ctx.db.get(requestId): the row, or NoRequest
NoRequest ==
    [id |-> 0, toSessionId |-> 0, fromSessionId |-> 0, fromUsername |-> "",
     requestData |-> NoData, responseData |-> NoData, status |-> "", createdAt |-> 0]

RequestById(requestId) ==
    IF \E r \in connectionRequests : r.id = requestId
    THEN CHOOSE r \in connectionRequests : r.id = requestId
    ELSE NoRequest

\* webrtc_signaling.ts:70-74  a row to toSessionId in status "sent" from
\* Mutant: the duplicate check of sendConnectionRequest taking a sent request
\* in the opposite direction for a duplicate as well
ExistingSentRequest_EitherDirection(fromSessionId, toSessionId) ==
    \E r \in connectionRequests :
        /\ {r.fromSessionId, r.toSessionId} = {fromSessionId, toSessionId}
        /\ r.status = "sent"

\* fromSessionId
ExistingSentRequest(fromSessionId, toSessionId) ==
    \E r \in connectionRequests :
        /\ r.toSessionId = toSessionId
        /\ r.status = "sent"
        /\ r.fromSessionId = fromSessionId

\* Mutant: sendConnectionRequest without the friendship check
SendOutcome_NoFriendCheck(tok, toSessionId) ==
    IF UserByToken(tok) = "" THEN "Invalid user token"
    ELSE IF FirstActiveSession(tok) = NoSession
         THEN "No active session found for requesting user"
    ELSE IF SessionById(toSessionId) = NoSession \/ ~SessionById(toSessionId).isActive
         THEN "Target session not found or inactive"
    ELSE IF ExistingSentRequest(FirstActiveSession(tok).sessionId, toSessionId)
         THEN "Connection request already pending"
    ELSE OK

\* webrtc_signaling.ts:25-78  the checks of sendConnectionRequest, in order
SendOutcome(tok, toSessionId) ==
    IF UserByToken(tok) = "" THEN "Invalid user token"
    ELSE IF FirstActiveSession(tok) = NoSession
         THEN "No active session found for requesting user"
    ELSE IF SessionById(toSessionId) = NoSession \/ ~SessionById(toSessionId).isActive
         THEN "Target session not found or inactive"
    ELSE IF ~VerifyFriendship(UserByToken(tok), SessionById(toSessionId).userId)
         THEN "You can only connect to friends"
    ELSE IF ExistingSentRequest(FirstActiveSession(tok).sessionId, toSessionId)
         THEN "Connection request already pending"
    ELSE OK

\* webrtc_signaling.ts:19-95  sendConnectionRequest
SendConnectionRequest(tok, toSessionId, offerData) ==
    IF SendOutcome(tok, toSessionId) = OK
    THEN /\ connectionRequests' = connectionRequests \cup
                {[id |-> nextRequest,
                  toSessionId |-> toSessionId,
                  fromSessionId |-> FirstActiveSession(tok).sessionId,
                  fromUsername |-> UserByToken(tok),
                  requestData |-> offerData,
                  responseData |-> NoData,
                  status |-> "sent",
                  createdAt |-> now]}
         /\ nextRequest' = nextRequest + 1
         /\ UNCHANGED <<clientVars, accountVars, peerVars, pingVars, sessions, nextSession, friendRequests, friendships, now, ticks, sweptAt>>
    ELSE UNCHANGED vars

\* Mutant: replyToConnectionRequest without the check of the status
ReplyOutcome_NoStatusCheck(tok, requestId) ==
    IF UserByToken(tok) = "" THEN "Invalid user token"
    ELSE IF FirstActiveSession(tok) = NoSession THEN "No active session found"
    ELSE IF RequestById(requestId) = NoRequest THEN "Connection request not found"
    ELSE IF RequestById(requestId).toSessionId # FirstActiveSession(tok).sessionId
         THEN "Not authorized to respond to this request"
    ELSE OK

\* Mutant: replyToConnectionRequest rejecting only a replied request, so that
\* a completed one can be answered
ReplyOutcome_RepliedOnly(tok, requestId) ==
    IF UserByToken(tok) = "" THEN "Invalid user token"
    ELSE IF FirstActiveSession(tok) = NoSession THEN "No active session found"
    ELSE IF RequestById(requestId) = NoRequest THEN "Connection request not found"
    ELSE IF RequestById(requestId).toSessionId # FirstActiveSession(tok).sessionId
         THEN "Not authorized to respond to this request"
    ELSE IF RequestById(requestId).status = "replied"
         THEN "Request is not in a 'sent' state."
    ELSE OK

\* webrtc_signaling.ts:104-118  the checks of replyToConnectionRequest
ReplyOutcome(tok, requestId) ==
    IF UserByToken(tok) = "" THEN "Invalid user token"
    ELSE IF FirstActiveSession(tok) = NoSession THEN "No active session found"
    ELSE IF RequestById(requestId) = NoRequest THEN "Connection request not found"
    ELSE IF RequestById(requestId).toSessionId # FirstActiveSession(tok).sessionId
         THEN "Not authorized to respond to this request"
    ELSE IF RequestById(requestId).status # "sent"
         THEN "Request is not in a 'sent' state."
    ELSE OK

\* ctx.db.patch(requestId, fields) on connectionRequests
PatchRequest(requestId, patched) ==
    (connectionRequests \ {RequestById(requestId)}) \cup {patched}

\* webrtc_signaling.ts:98-129  replyToConnectionRequest
ReplyToConnectionRequest(tok, requestId, answerData) ==
    IF ReplyOutcome(tok, requestId) = OK
    THEN /\ connectionRequests' =
              PatchRequest(requestId,
                  [RequestById(requestId) EXCEPT !.status = "replied",
                                                 !.responseData = answerData])
         /\ UNCHANGED <<clientVars, accountVars, peerVars, pingVars, sessions, nextSession, friendRequests, friendships,
                        nextRequest, now, ticks, sweptAt>>
    ELSE UNCHANGED vars

\* webrtc_signaling.ts:137-142  the one check of getSentConnectionRequests
SentRequestsOutcome(tok, sessionId) ==
    IF UserByToken(tok) = "" THEN "Invalid user token" ELSE OK

\* Mutant: getSentConnectionRequests selecting by the source session
GetSentConnectionRequests_BySource(tok, sessionId) ==
    IF SentRequestsOutcome(tok, sessionId) = OK
    THEN {r \in connectionRequests : r.fromSessionId = sessionId /\ r.status = "sent"}
    ELSE {}

\* webrtc_signaling.ts:132-177  getSentConnectionRequests: the rows returned
GetSentConnectionRequests(tok, sessionId) ==
    IF SentRequestsOutcome(tok, sessionId) = OK
    THEN {r \in connectionRequests : r.toSessionId = sessionId /\ r.status = "sent"}
    ELSE {}

\* Mutant: checkConnectionRequestStatus without the check of the caller's
\* session against the request
CheckStatusOutcome_NoParticipantCheck(tok, requestId) ==
    IF UserByToken(tok) = "" THEN "Invalid user token"
    ELSE IF FirstActiveSession(tok) = NoSession THEN "No active session found"
    ELSE IF RequestById(requestId) = NoRequest THEN "Request not found"
    ELSE OK

\* webrtc_signaling.ts:185-216  the checks of checkConnectionRequestStatus
CheckStatusOutcome(tok, requestId) ==
    IF UserByToken(tok) = "" THEN "Invalid user token"
    ELSE IF FirstActiveSession(tok) = NoSession THEN "No active session found"
    ELSE IF RequestById(requestId) = NoRequest THEN "Request not found"
    ELSE IF /\ RequestById(requestId).fromSessionId # FirstActiveSession(tok).sessionId
            /\ RequestById(requestId).toSessionId # FirstActiveSession(tok).sessionId
         THEN "Not authorized to check this request"
    ELSE OK

\* webrtc_signaling.ts:180-220  checkConnectionRequestStatus: the row
\* returned, NoRequest when the call throws
CheckConnectionRequestStatus(tok, requestId) ==
    IF CheckStatusOutcome(tok, requestId) = OK
    THEN RequestById(requestId)
    ELSE NoRequest

\* webrtc_signaling.ts:228-243  the checks of markConnectionCompleted
CompleteOutcome(tok, requestId) ==
    IF UserByToken(tok) = "" THEN "Invalid user token"
    ELSE IF RequestById(requestId) = NoRequest THEN "Request not found"
    ELSE OK

\* webrtc_signaling.ts:223-253  markConnectionCompleted
MarkConnectionCompleted(tok, requestId) ==
    IF CompleteOutcome(tok, requestId) = OK
    THEN /\ connectionRequests' =
              PatchRequest(requestId,
                  [RequestById(requestId) EXCEPT !.status = "completed"])
         /\ UNCHANGED <<clientVars, accountVars, peerVars, pingVars, sessions, nextSession, friendRequests, friendships,
                        nextRequest, now, ticks, sweptAt>>
    ELSE UNCHANGED vars

\* Mutant: the sweep selecting old requests in every status
ExpiredRequests_AnyStatus ==
    {r \in connectionRequests : r.createdAt < now - EXPIRY_MS}

\* Mutant: the sweep with a window of ten minutes
ExpiredRequests_TenMinutes ==
    {r \in connectionRequests :
        r.status = "sent" /\ r.createdAt < now - 2 * EXPIRY_MS}

\* webrtc_signaling.ts:258-264  the rows the sweep selects
ExpiredRequests ==
    {r \in connectionRequests : r.status = "sent" /\ r.createdAt < now - EXPIRY_MS}

\* webrtc_signaling.ts:256-272  cleanupExpiredRequests (takes no token)
CleanupExpiredRequests ==
    /\ connectionRequests' = connectionRequests \ ExpiredRequests
    /\ sweptAt' = now
    /\ UNCHANGED <<clientVars, accountVars, peerVars, pingVars, sessions, nextSession, friendRequests, friendships,
                   nextRequest, now, ticks>>

\* Date.now() moves on by d
Tick(d) ==
    /\ now' = now + d
    /\ ticks' = ticks + 1
    /\ UNCHANGED <<clientVars, accountVars, peerVars, pingVars, sessions, nextSession, friendRequests, friendships,
                   connectionRequests, nextRequest, sweptAt>>

\* ------------------------------------------------------- liveness prober
NoPing == [id |-> 0, pingerSessionId |-> 0, targetSessionId |-> 0, status |-> ""]

\* ctx.db.get(pingId)
PingById(pingId) ==
    IF \E p \in livePings : p.id = pingId
    THEN CHOOSE p \in livePings : p.id = pingId
    ELSE NoPing

\* sessions.ts:264-272  _getActiveSessionsForUser
ActiveSessionsOf(userId) == {s \in sessions : s.userId = userId /\ s.isActive}

\* Mutant: send without the deletion of the older pings of the pair
SupersededPings_None(fromSessionId, toSessionId) == {}

\* livePings.ts:24-30  the pings one send call deletes before its insert
SupersededPings(fromSessionId, toSessionId) ==
    {p \in livePings : p.targetSessionId = toSessionId
                          /\ p.pingerSessionId = fromSessionId}

\* livePings.ts:16-21  the one check of send
SendPingOutcome(tok, fromSessionId, toSessionId) ==
    IF UserByToken(tok) = "" THEN "Invalid user" ELSE OK

\* livePings.ts:9-41  send: neither session handle is looked up
SendPing(tok, fromSessionId, toSessionId) ==
    IF SendPingOutcome(tok, fromSessionId, toSessionId) = OK
    THEN /\ livePings' = (livePings \ SupersededPings(fromSessionId, toSessionId))
                \cup {[id |-> nextPing,
                       pingerSessionId |-> fromSessionId,
                       targetSessionId |-> toSessionId,
                       status |-> "sent"]}
         /\ nextPing' = nextPing + 1
         /\ UNCHANGED <<clientVars, accountVars, peerVars, sessions, nextSession, friendRequests, friendships,
                        connectionRequests, nextRequest, now, ticks, sweptAt,
                        probes>>
    ELSE UNCHANGED vars

\* livePings.ts:47-51  the one check of respond
RespondPingOutcome(tok, pingId) ==
    IF UserByToken(tok) = "" THEN "Invalid user" ELSE OK

\* livePings.ts:44-58  respond: a ping that is gone is left alone
RespondPing(tok, pingId) ==
    IF RespondPingOutcome(tok, pingId) = OK /\ PingById(pingId) # NoPing
    THEN /\ livePings' = (livePings \ {PingById(pingId)}) \cup
                {[PingById(pingId) EXCEPT !.status = "responded"]}
         /\ UNCHANGED <<clientVars, accountVars, peerVars, sessions, nextSession, friendRequests, friendships,
                        connectionRequests, nextRequest, now, ticks, sweptAt,
                        nextPing, probes>>
    ELSE UNCHANGED vars

\* friends.ts:338-339  the one check of getFriendActiveSessions
ProbeOutcome(tok, friendUserId) ==
    IF UserByToken(tok) = "" THEN "Invalid user token" ELSE OK

\* friends.ts:341-351  the sessions a getFriendActiveSessions call pings:
\* none when the caller has no active session
ProbedSessions(tok, friendUserId) ==
    IF ProbeOutcome(tok, friendUserId) # OK \/ FirstActiveSession(tok) = NoSession
    THEN {}
    ELSE ActiveSessionsOf(friendUserId)

\* The id the ping to session s gets when the sessions of targets are pinged
\* in the order of their handles
PingIdFor(s, targets) ==
    nextPing + Cardinality({t \in targets : t.sessionId < s.sessionId})

\* friends.ts:336-364  getFriendActiveSessions up to its wait: one
\* livePings.send (livePings.ts:9-41) per active session of friendUserId
GetFriendActiveSessionsStart(tok, friendUserId) ==
    LET from == FirstActiveSession(tok).sessionId
        targets == ProbedSessions(tok, friendUserId)
    IN  IF targets # {}
        THEN /\ livePings' =
                    (livePings \ UNION {SupersededPings(from, t.sessionId) :
                                           t \in targets})
                    \cup {[id |-> PingIdFor(t, targets),
                           pingerSessionId |-> from,
                           targetSessionId |-> t.sessionId,
                           status |-> "sent"] : t \in targets}
             /\ nextPing' = nextPing + Cardinality(targets)
             /\ probes' = probes \cup
                    {[caller |-> tok, startedAt |-> now,
                      pings |-> {[pingId |-> PingIdFor(t, targets),
                                  sessionId |-> t.sessionId] : t \in targets}]}
             /\ UNCHANGED <<clientVars, accountVars, peerVars, sessions, nextSession, friendRequests, friendships,
                            connectionRequests, nextRequest, now, ticks, sweptAt>>
        ELSE UNCHANGED vars

\* Mutant: the prober taking every ping that is still stored for answered
RespondedPings_Stored(probe) ==
    {pp \in probe.pings : PingById(pp.pingId) # NoPing}

\* friends.ts:371  the pings of a call that were answered
RespondedPings(probe) ==
    {pp \in probe.pings : PingById(pp.pingId).status = "responded"}

\* friends.ts:366-392  getFriendActiveSessions after its wait of 3 s: a ping
\* that is not "responded" is deleted (livePings.ts:87-95) and so is the
\* session it was sent to (sessions.ts:242-250)
GetFriendActiveSessionsFinish(probe) ==
    /\ now >= probe.startedAt + PROBE_WAIT_MS
    /\ livePings' = {p \in livePings :
                        \A pp \in probe.pings \ RespondedPings(probe) :
                            p.id # pp.pingId}
    /\ sessions' = {s \in sessions :
                        \A pp \in probe.pings \ RespondedPings(probe) :
                            s.sessionId # pp.sessionId}
    /\ probes' = probes \ {probe}
    /\ UNCHANGED <<clientVars, accountVars, peerVars, nextSession, friendRequests, friendships,
                   connectionRequests, nextRequest, now, ticks, sweptAt,
                   nextPing>>

\* friends.ts:385-392  the handles getFriendActiveSessions returns
ProbeResult(probe) == {pp.sessionId : pp \in RespondedPings(probe)}

\* ------------------------------------------------------- alice's browser
serverVars == <<sessions, nextSession, friendRequests, friendships,
                connectionRequests, nextRequest, now, ticks, sweptAt, pingVars,
                accountVars, peerVars>>

\* useSession.ts:63  the handles createSession has returned to
\* initializeSession and whose continuation has not run
CreatedSessions ==
    {h \in 1..(nextSession - 1) :
        h <= Len(ClientPlan) /\ ClientPlan[h] = ClientToken} \ initialized

\* useSession.ts:66-89  initializeSession after its await: the state is
\* set, the timer of the ref is cleared and a new one is started
InitializeSessionResume(h) ==
    /\ h \in CreatedSessions
    /\ hook' = [sessionId |-> h, isSessionActive |-> TRUE, pingIntervalRef |-> h]
    /\ intervals' = (intervals \ {hook.pingIntervalRef}) \cup {h}
    /\ initialized' = initialized \cup {h}
    /\ UNCHANGED <<serverVars, mainVars, receiverVars, pingFailures, chat>>

\* useSession.ts:76-83  a tick of timer i whose updateSessionPing succeeds
PingOk(i) ==
    /\ i \in intervals
    /\ UpdatePingOutcome(ClientToken, i) = OK
    /\ UpdateSessionPing(ClientToken, i)

\* useSession.ts:76-83  a tick of timer i whose updateSessionPing is
\* rejected: the mutation writes nothing, the promise is rejected
PingFail(i) ==
    /\ i \in intervals
    /\ UpdatePingOutcome(ClientToken, i) # OK
    /\ pingFailures' = pingFailures \cup {i}
    /\ UNCHANGED <<serverVars, mainVars, receiverVars, hook, intervals, initialized, chat>>

\* Mutant: the catch block without clearInterval
PingCatch_KeepsTimer(i) ==
    /\ i \in pingFailures
    /\ hook' = [hook EXCEPT !.isSessionActive = FALSE]
    /\ pingFailures' = pingFailures \ {i}
    /\ UNCHANGED <<serverVars, mainVars, receiverVars, intervals, initialized, chat>>

\* useSession.ts:84-88  the catch block of the tick of timer i: the timer
\* the ref holds is cleared, the ref itself is left as it is
PingCatch(i) ==
    /\ i \in pingFailures
    /\ hook' = [hook EXCEPT !.isSessionActive = FALSE]
    /\ intervals' = intervals \ {hook.pingIntervalRef}
    /\ pingFailures' = pingFailures \ {i}
    /\ UNCHANGED <<serverVars, mainVars, receiverVars, initialized, chat>>

\* useSession.ts:18-47  cleanupSession in the browser; its deactivateSession
\* call is the server's step
CleanupSession ==
    /\ hook' = [sessionId |-> 0, isSessionActive |-> FALSE, pingIntervalRef |-> 0]
    /\ intervals' = intervals \ {hook.pingIntervalRef}
    /\ UNCHANGED <<serverVars, mainVars, receiverVars, pingFailures, initialized, chat>>

\* SimpleWebRTCChat.tsx:46  the component is mounted for a request alice's
\* session has opened
ChatMount(requestId) ==
    /\ chat.requestId = 0
    /\ RequestById(requestId) # NoRequest
    /\ RequestById(requestId).fromUsername = ClientToken
    /\ chat' = [requestId |-> requestId, snapshot |-> NoRequest,
                remoteAnswer |-> NoData]
    /\ UNCHANGED <<serverVars, mainVars, receiverVars, hook, intervals, pingFailures, initialized>>

\* SimpleWebRTCChat.tsx:68-89, 221-237  useQuery delivers a new result of
\* checkConnectionRequestStatus and the effect runs: handleReceivedAnswer
\* sets the remote description when the status is "replied"
ChatObserve ==
    LET result == CheckConnectionRequestStatus(ClientToken, chat.requestId)
    IN  /\ chat.requestId # 0
        /\ result # NoRequest
        /\ result # chat.snapshot
        /\ chat' = [chat EXCEPT
                       !.snapshot = result,
                       !.remoteAnswer =
                           IF result.status = "replied" /\ result.responseData # NoData
                           THEN result.responseData
                           ELSE chat.remoteAnswer]
        /\ UNCHANGED <<serverVars, mainVars, receiverVars, hook, intervals, pingFailures, initialized>>

\* The database before any call (the users table apart)
\* ------------------------------------------------- peerConnections path
\* peerConnections.ts:334  Date.now() - (60 * 60 * 1000): ONE_HOUR_MS
\* peerConnections.ts:354  Date.now() - (24 * 60 * 60 * 1000)
ONE_DAY_MS == 24 * 60 * 60 * 1000
ConnectionIds == 1..MaxConnections
OpenStatuses == {"offered", "connected"}

NoConnection ==
    [connectionId |-> 0, sessionId |-> 0, targetSessionId |-> 0,
     status |-> "", createdAt |-> 0, updatedAt |-> 0]

\* query("peerConnections").withIndex("by_connectionId", ...).first();
\* generateConnectionId draws 32 random characters: a fresh handle
ConnectionById(connectionId) ==
    IF \E c \in peerConnections : c.connectionId = connectionId
    THEN CHOOSE c \in peerConnections : c.connectionId = connectionId
    ELSE NoConnection

\* peerConnections.ts:53-63  the stored rows of the ordered pair that are
\* offered or connected
OpenConnections(sessionId, targetSessionId) ==
    {c \in peerConnections :
        /\ c.sessionId = sessionId
        /\ c.targetSessionId = targetSessionId
        /\ c.status \in OpenStatuses}

\* peerConnections.ts:22-67
CreateOfferOutcome(tok, sessionId, targetSessionId) ==
    IF UserByToken(tok) = "" THEN "Invalid user token"
    ELSE IF SessionById(sessionId) = NoSession
            \/ SessionById(sessionId).userId # tok
    THEN "Session does not belong to this user"
    ELSE IF SessionById(targetSessionId) = NoSession
            \/ ~SessionById(targetSessionId).isActive
    THEN "Target session not found or inactive"
    ELSE IF OpenConnections(sessionId, targetSessionId) # {}
    THEN "Connection already exists or is pending"
    ELSE OK

\* peerConnections.ts:14-95
CreateConnectionOffer(tok, sessionId, targetSessionId) ==
    IF CreateOfferOutcome(tok, sessionId, targetSessionId) = OK
    THEN /\ peerConnections' = peerConnections \cup
                {[connectionId |-> nextConnection, sessionId |-> sessionId,
                  targetSessionId |-> targetSessionId, status |-> "offered",
                  createdAt |-> now, updatedAt |-> now]}
         /\ nextConnection' = nextConnection + 1
         /\ UNCHANGED <<clientVars, accountVars, pingVars, sessions, nextSession,
                        friendRequests, friendships, connectionRequests,
                        nextRequest, now, ticks, sweptAt>>
    ELSE UNCHANGED vars

\* peerConnections.ts:180-193, 306-318  hasPermission
HasPermission(tok, c) ==
    \/ SessionById(c.sessionId) # NoSession /\ SessionById(c.sessionId).userId = tok
    \/ SessionById(c.targetSessionId) # NoSession
           /\ SessionById(c.targetSessionId).userId = tok

\* peerConnections.ts:162-199
UpdateStatusOutcome(tok, connectionId) ==
    IF UserByToken(tok) = "" THEN "Invalid user token"
    ELSE IF ConnectionById(connectionId) = NoConnection THEN "Connection not found"
    ELSE IF ~HasPermission(tok, ConnectionById(connectionId))
    THEN "Not authorized to update this connection"
    ELSE OK

\* ctx.db.patch(connection._id, { status, updatedAt: Date.now() })
PatchConnection(c, status) ==
    (peerConnections \ {c}) \cup {[c EXCEPT !.status = status, !.updatedAt = now]}

\* peerConnections.ts:154-210
UpdateConnectionStatus(tok, connectionId, status) ==
    IF UpdateStatusOutcome(tok, connectionId) = OK
    THEN /\ peerConnections' = PatchConnection(ConnectionById(connectionId), status)
         /\ UNCHANGED <<clientVars, accountVars, pingVars, sessions, nextSession,
                        friendRequests, friendships, connectionRequests,
                        nextRequest, now, ticks, sweptAt, nextConnection>>
    ELSE UNCHANGED vars

\* peerConnections.ts:286-322
DisconnectOutcome(tok, connectionId) ==
    IF UserByToken(tok) = "" THEN "Invalid user token"
    ELSE IF ConnectionById(connectionId) = NoConnection THEN "Connection not found"
    ELSE IF ~HasPermission(tok, ConnectionById(connectionId))
    THEN "Not authorized to disconnect this connection"
    ELSE OK

\* peerConnections.ts:283-331
DisconnectConnection(tok, connectionId) ==
    IF DisconnectOutcome(tok, connectionId) = OK
    THEN /\ peerConnections' =
                PatchConnection(ConnectionById(connectionId), "disconnected")
         /\ UNCHANGED <<clientVars, accountVars, pingVars, sessions, nextSession,
                        friendRequests, friendships, connectionRequests,
                        nextRequest, now, ticks, sweptAt, nextConnection>>
    ELSE UNCHANGED vars

\* peerConnections.ts:337-343
OldOffers ==
    {c \in peerConnections :
        c.status = "offered" /\ c.createdAt < now - ONE_HOUR_MS}

\* peerConnections.ts:345-350  the table after the old offers are patched
AfterOffersExpired ==
    (peerConnections \ OldOffers) \cup
    {[c EXCEPT !.status = "disconnected", !.updatedAt = now] : c \in OldOffers}

\* peerConnections.ts:355-361, read after the patches above
OldDisconnected ==
    {c \in AfterOffersExpired :
        c.status = "disconnected" /\ c.updatedAt < now - ONE_DAY_MS}

\* peerConnections.ts:333-372
CleanupOldConnections ==
    /\ peerConnections' = AfterOffersExpired \ OldDisconnected
    /\ UNCHANGED <<clientVars, accountVars, pingVars, sessions, nextSession,
                   friendRequests, friendships, connectionRequests,
                   nextRequest, now, ticks, sweptAt, nextConnection>>

\* ------------------------------------------------------ MainChatInterface
\* The sessionId prop of alice's MainChatInterface: her first session
MainSessionId == 1

\* useState(null) of activeConnection and pendingConnection
NoPeer == [sessionId |-> 0, requestId |-> 0, isInitiator |-> FALSE]

\* peerConnections.ts:96-113  the checks of getConnectionOffers
ConnectionOffersOutcome(tok, sessionId) ==
    IF UserByToken(tok) = "" THEN "Invalid user token"
    ELSE IF SessionById(sessionId) = NoSession
            \/ SessionById(sessionId).userId # tok
    THEN "Session does not belong to this user"
    ELSE OK

\* peerConnections.ts:115-145  the offered rows that target the session
\* and whose source session is stored
GetConnectionOffers(tok, sessionId) ==
    IF ConnectionOffersOutcome(tok, sessionId) = OK
    THEN {c \in peerConnections :
             /\ c.targetSessionId = sessionId
             /\ c.status = "offered"
             /\ SessionById(c.sessionId) # NoSession}
    ELSE {}

\* MainChatInterface.tsx:79-81  incomingOffers.find(...): the offers not in
\* processedRequestsRef
UnprocessedOffers ==
    {c \in GetConnectionOffers(ClientToken, MainSessionId) :
        c.connectionId \notin processedRequests}

\* MainChatInterface.tsx:122-137
HandleConnectionEstablished(targetSessionId, requestId, isInitiator) ==
    pendingConnection' = [sessionId |-> targetSessionId,
                          requestId |-> requestId,
                          isInitiator |-> isInitiator]

\* MainChatInterface.tsx:75-106  the incoming offers effect: the first
\* offer of the list that is not in processedRequestsRef
IncomingOffersEffect ==
    /\ activeConnection = NoPeer
    /\ pendingConnection = NoPeer
    /\ UnprocessedOffers # {}
    /\ LET newOffer == CHOOSE c \in UnprocessedOffers :
                           \A d \in UnprocessedOffers :
                               c.connectionId <= d.connectionId
       IN  /\ processedRequests' = processedRequests \cup {newOffer.connectionId}
           /\ HandleConnectionEstablished(newOffer.sessionId,
                                          newOffer.connectionId, FALSE)
           /\ acceptedOffers' = Append(acceptedOffers, newOffer.connectionId)
    /\ UNCHANGED <<serverVars, receiverVars, hook, intervals, pingFailures,
                   initialized, chat, activeConnection, isFriendSelectorOpen,
                   startedChats>>

\* MainChatInterface.tsx:213-217  the Connect to Session button, disabled
\* while a connection is active or pending
OpenFriendSelector ==
    /\ activeConnection = NoPeer
    /\ pendingConnection = NoPeer
    /\ isFriendSelectorOpen' = TRUE
    /\ UNCHANGED <<serverVars, receiverVars, hook, intervals, pingFailures,
                   initialized, chat, activeConnection, pendingConnection,
                   processedRequests, acceptedOffers, startedChats>>

\* WebRTCFriendSelector.tsx:85-115, MainChatInterface.tsx:382-391  the
\* selector, which nothing closes, is handed the result of its
\* createConnectionOffer call and calls onStartChatWithFriend
StartChatWithFriend(connectionId) ==
    /\ isFriendSelectorOpen
    /\ connectionId \notin startedChats
    /\ ConnectionById(connectionId) # NoConnection
    /\ ConnectionById(connectionId).sessionId = MainSessionId
    /\ HandleConnectionEstablished(ConnectionById(connectionId).targetSessionId,
                                   connectionId, TRUE)
    /\ startedChats' = startedChats \cup {connectionId}
    /\ UNCHANGED <<serverVars, receiverVars, hook, intervals, pingFailures,
                   initialized, chat, activeConnection, isFriendSelectorOpen,
                   processedRequests, acceptedOffers>>

\* MainChatInterface.tsx:139-145  onConnectionReady of the rendered chat
HandleWebRTCConnectionReady ==
    /\ pendingConnection # NoPeer
    /\ activeConnection' = pendingConnection
    /\ pendingConnection' = NoPeer
    /\ UNCHANGED <<serverVars, receiverVars, hook, intervals, pingFailures,
                   initialized, chat, isFriendSelectorOpen, processedRequests,
                   acceptedOffers, startedChats>>

\* MainChatInterface.tsx:147-153, 357-369  onLeaveChat of the chat, which
\* is rendered while a connection is active or pending
HandleLeaveConnection ==
    /\ activeConnection # NoPeer \/ pendingConnection # NoPeer
    /\ activeConnection' = NoPeer
    /\ pendingConnection' = NoPeer
    /\ processedRequests' = {}
    /\ UNCHANGED <<serverVars, receiverVars, hook, intervals, pingFailures,
                   initialized, chat, isFriendSelectorOpen, acceptedOffers,
                   startedChats>>

\* ------------------------------------------------ SimpleWebRTCChat receiver
\* The component before it is mounted
NotMounted ==
    [mounted |-> FALSE, offerData |-> NoData, requestId |-> 0,
     actualRequestId |-> 0, hasPeerConnection |-> FALSE,
     hasProcessedOffer |-> FALSE]

\* The props the parent may pass: offerData (NoData: undefined), requestId
\* (0: undefined)
ReceiverProps == ({"offer1", "offer2"} \cup {NoData}) \X (0..MaxRequests)

\* SimpleWebRTCChat.tsx:33-50, 91-97, 117-167  the component mounts with
\* isInitiator false: useState(requestId || null), fresh refs, and the
\* mount effect's initializeWebRTC sets peerConnectionRef
ReceiverMount(offerData, requestId) ==
    /\ ~receiver.mounted
    /\ receiver' = [mounted |-> TRUE, offerData |-> offerData,
                    requestId |-> requestId, actualRequestId |-> requestId,
                    hasPeerConnection |-> TRUE, hasProcessedOffer |-> FALSE]
    /\ answering' = <<>>
    /\ replies' = 0
    /\ UNCHANGED <<serverVars, mainVars, hook, intervals, pingFailures,
                   initialized, chat>>

\* The parent renders the component with other props
ReceiverPropsChange(offerData, requestId) ==
    /\ receiver.mounted
    /\ receiver' = [receiver EXCEPT !.offerData = offerData,
                                    !.requestId = requestId]
    /\ UNCHANGED <<serverVars, mainVars, hook, intervals, pingFailures,
                   initialized, chat, answering, replies>>

\* SimpleWebRTCChat.tsx:54-60  the effect that follows the requestId prop
UpdateActualRequestId ==
    /\ receiver.mounted
    /\ receiver.requestId # 0
    /\ receiver.requestId # receiver.actualRequestId
    /\ receiver' = [receiver EXCEPT !.actualRequestId = receiver.requestId]
    /\ UNCHANGED <<serverVars, mainVars, hook, intervals, pingFailures,
                   initialized, chat, answering, replies>>

\* SimpleWebRTCChat.tsx:239-251 with hasProcessedOfferRef left unset
ProcessIncomingOffer_FlagNotSet ==
    /\ receiver.hasPeerConnection
    /\ ~receiver.hasProcessedOffer
    /\ answering' = Append(answering, receiver.actualRequestId)
    /\ UNCHANGED receiver

\* SimpleWebRTCChat.tsx:239-276  processIncomingOffer up to its first
\* await: the guard, hasProcessedOfferRef.current = true, createAnswer
\* called; the call keeps the actualRequestId of the render it ran in
ProcessIncomingOffer ==
    /\ receiver.hasPeerConnection
    /\ ~receiver.hasProcessedOffer
    /\ receiver' = [receiver EXCEPT !.hasProcessedOffer = TRUE]
    /\ answering' = Append(answering, receiver.actualRequestId)

\* SimpleWebRTCChat.tsx:100-115  the process offer effect runs
ProcessOfferEffect ==
    /\ receiver.mounted
    /\ receiver.offerData # NoData
    /\ receiver.hasPeerConnection
    /\ ~receiver.hasProcessedOffer
    /\ receiver.actualRequestId # 0
    /\ ProcessIncomingOffer
    /\ UNCHANGED <<serverVars, mainVars, hook, intervals, pingFailures,
                   initialized, chat, replies>>

\* SimpleWebRTCChat.tsx:278-295  createAnswer resolves: auth.token and the
\* captured request id are set, replyToRequest is called
AnswerCreated ==
    /\ answering # <<>>
    /\ answering' = Tail(answering)
    /\ replies' = IF Head(answering) # 0 THEN replies + 1 ELSE replies
    /\ UNCHANGED <<serverVars, mainVars, hook, intervals, pingFailures,
                   initialized, chat, receiver>>

\* SimpleWebRTCChat.tsx:280-283, 300-304  createAnswer rejects: the catch
\* block runs, nothing is sent
AnswerFailed ==
    /\ answering # <<>>
    /\ answering' = Tail(answering)
    /\ UNCHANGED <<serverVars, mainVars, hook, intervals, pingFailures,
                   initialized, chat, receiver, replies>>

\* SimpleWebRTCChat.tsx:354-369  cleanup closes the peer connection
ReceiverCleanup ==
    /\ receiver.mounted
    /\ receiver.hasPeerConnection
    /\ receiver' = [receiver EXCEPT !.hasPeerConnection = FALSE]
    /\ UNCHANGED <<serverVars, mainVars, hook, intervals, pingFailures,
                   initialized, chat, answering, replies>>

\* ---------------------------------------------------------------- accounts
\* A display name as typed: a string, as the sequence of its characters
Chars == {" ", "a", "b"}
\* of up to two characters
RawNames == UNION {[1..n -> Chars] : n \in 0..2}
\* auth.ts:5-12  generateToken draws 32 random characters
GeneratedTokens == {"tokenA", "tokenB"}

RECURSIVE TrimStart(_)
TrimStart(str) ==
    IF str # <<>> /\ Head(str) = " " THEN TrimStart(Tail(str)) ELSE str

RECURSIVE TrimEnd(_)
TrimEnd(str) ==
    IF str # <<>> /\ str[Len(str)] = " "
    THEN TrimEnd(SubSeq(str, 1, Len(str) - 1))
    ELSE str

\* String.prototype.trim
Trim(str) == TrimEnd(TrimStart(str))

\* .withIndex("by_username", (q) => q.eq("username", name)).first()
UserByUsername(name) == {i \in 1..Len(users) : users[i].username = name}

\* auth.ts:29-40 with the lookup on the name as typed
SignUpOutcome_LookupUntrimmed(username) ==
    IF Trim(username) = <<>> THEN "Username cannot be empty"
    ELSE IF UserByUsername(username) # {} THEN "Username already taken"
    ELSE OK

\* auth.ts:29-40
SignUpOutcome(username) ==
    IF Trim(username) = <<>> THEN "Username cannot be empty"
    ELSE IF UserByUsername(Trim(username)) # {} THEN "Username already taken"
    ELSE OK

\* auth.ts:26-52
SignUp(username) ==
    IF SignUpOutcome(username) = OK
    THEN /\ \E token \in GeneratedTokens :
                users' = Append(users, [username |-> Trim(username), token |-> token])
         /\ UNCHANGED <<clientVars, pingVars, peerVars, sessions, nextSession,
                        friendRequests, friendships, connectionRequests,
                        nextRequest, now, ticks, sweptAt>>
    ELSE UNCHANGED vars

Init ==
    /\ sessions = {}
    /\ nextSession = 1
    /\ friendRequests = <<>>
    /\ friendships = <<>>
    /\ connectionRequests = {}
    /\ nextRequest = 1
    /\ now = 0
    /\ ticks = 0
    /\ sweptAt = -1
    /\ livePings = {}
    /\ nextPing = 1
    /\ probes = {}
    /\ hook = [sessionId |-> 0, isSessionActive |-> FALSE, pingIntervalRef |-> 0]
    /\ intervals = {}
    /\ pingFailures = {}
    /\ initialized = {}
    /\ chat = [requestId |-> 0, snapshot |-> NoRequest, remoteAnswer |-> NoData]
    /\ users = <<>>
    /\ peerConnections = {}
    /\ nextConnection = 1
    /\ activeConnection = NoPeer
    /\ pendingConnection = NoPeer
    /\ isFriendSelectorOpen = FALSE
    /\ processedRequests = {}
    /\ acceptedOffers = <<>>
    /\ startedChats = {}
    /\ receiver = NotMounted
    /\ answering = <<>>
    /\ replies = 0

\* ------------------------------------------------------------------ steps
\* The next client attaches
Attach(plan) ==
    /\ nextSession <= Len(plan)
    /\ CreateSession(plan[nextSession])

\* The friend operations, called with tokens from toks and names from names
FriendOps(toks, names) ==
    \/ \E tok \in toks, name \in names :
          /\ SendFriendOutcome(tok, name) = OK => Len(friendRequests) < MaxFriendRequests
          /\ SendFriendRequest(tok, name)
    \/ \E tok \in toks, rid \in 1..MaxFriendRequests,
          response \in {"accepted", "rejected"} :
            RespondToFriendRequest(tok, rid, response)
    \/ \E tok \in toks, u \in names \cap Users : RemoveFriend(tok, u)

\* sendConnectionRequest, called with a token from toks
Open(toks) ==
    \E tok \in toks, sid \in SessionIds, offer \in Offers :
        /\ SendOutcome(tok, sid) = OK => nextRequest <= MaxRequests
        /\ SendConnectionRequest(tok, sid, offer)

Reply(answers) ==
    \E tok \in Tokens, rid \in RequestIds, answer \in answers :
        ReplyToConnectionRequest(tok, rid, answer)

Complete ==
    \E tok \in Tokens, rid \in RequestIds : MarkConnectionCompleted(tok, rid)

\* The coordinator without the clock: alice and bob run the friend
\* operations, carol stays a stranger to both, and every account (and a bad
\* token) calls the signaling operations
Next ==
    \/ Attach(SessionPlan)
    \/ FriendOps(FriendTokens, FriendNames)
    \/ Open(Tokens)
    \/ Reply(Answers)
    \/ Complete

Spec == Init /\ [][Next]_vars

\* The friend gate of sendConnectionRequest: every account runs the friend
\* operations and opens requests
NextFriendGate ==
    \/ Attach(SessionPlan)
    \/ FriendOps(Tokens, Usernames)
    \/ Open(Tokens)

SpecFriendGate == Init /\ [][NextFriendGate]_vars

\* The coordinator with the clock and the sweep: alice and bob attach one
\* client each and become friends; alice opens requests
NextExpiry ==
    \/ Attach(ExpiryPlan)
    \/ SendFriendRequest("alice", "bob")
    \/ RespondToFriendRequest("bob", 1, "accepted")
    \/ Open({"alice"})
    \/ Reply({"answer1"})
    \/ Complete
    \/ CleanupExpiredRequests
    \/ \E d \in TickSteps : ticks < MaxTicks /\ Tick(d)

SpecExpiry == Init /\ [][NextExpiry]_vars

\* updateSessionPing, called with a token from toks
Heartbeat(toks) ==
    \E tok \in toks, sid \in SessionIds : UpdateSessionPing(tok, sid)

\* deactivateSession, called with a token from toks
Detach(toks) ==
    \E tok \in toks, sid \in SessionIds : DeactivateSession(tok, sid)

\* sendConnectionRequest while sessions age: alice, bob and carol attach one
\* client each, alice and bob become friends and may part again, the clients
\* send heartbeats, open requests, and the clock moves
NextLiveness ==
    \/ Attach(LivenessPlan)
    \/ /\ SendFriendOutcome("alice", "bob") = OK =>
              Len(friendRequests) < MaxFriendRequests
       /\ SendFriendRequest("alice", "bob")
    \/ RespondToFriendRequest("bob", 1, "accepted")
    \/ RemoveFriend("bob", "alice")
    \/ Heartbeat(Users)
    \/ Open(Users)
    \/ \E d \in SessionTickSteps : ticks < MaxTicks /\ Tick(d)

SpecLiveness == Init /\ [][NextLiveness]_vars

\* The session registry: clients attach, send heartbeats and detach, with
\* their own token, another account's or a bad one; the clock moves and the
\* sweep of old sessions runs
NextSessions ==
    \/ Attach(SessionPlan)
    \/ Heartbeat(Tokens)
    \/ Detach(Tokens)
    \/ CleanupOldSessions
    \/ \E d \in SessionTickSteps : ticks < MaxTicks /\ Tick(d)

SpecSessions == Init /\ [][NextSessions]_vars

\* getFriendActiveSessions, called with a token from toks for another
\* account, one of whom
Probe(toks, whom) ==
    \/ \E tok \in toks, u \in whom :
          /\ u # UserByToken(tok)
          /\ nextPing + Cardinality(ProbedSessions(tok, u)) <= MaxPings + 1
          /\ GetFriendActiveSessionsStart(tok, u)
    \/ \E probe \in probes : GetFriendActiveSessionsFinish(probe)

\* The liveness prober: alice and bob attach one client each and become
\* friends; the clients send heartbeats, detach, probe each other's sessions
\* and answer pings, and the clock moves by the prober's wait
NextProbe ==
    \/ Attach(ExpiryPlan)
    \/ SendFriendRequest("alice", "bob")
    \/ RespondToFriendRequest("bob", 1, "accepted")
    \/ Heartbeat(Users)
    \/ Detach(Users)
    \/ Probe({"alice", "bob", BadToken}, {"alice", "bob"})
    \/ \E tok \in Tokens, pingId \in PingIds : RespondPing(tok, pingId)
    \/ ticks < MaxTicks /\ Tick(PROBE_WAIT_MS)

SpecProbe == Init /\ [][NextProbe]_vars

\* livePings.send, called with a token from toks between two of handles
Ping(toks, handles) ==
    \E tok \in toks, from \in handles, to \in handles :
        /\ SendPingOutcome(tok, from, to) = OK => nextPing <= MaxPings
        /\ SendPing(tok, from, to)

\* The pings alone: alice and bob attach one client each; they and a bad
\* token send pings between the two handles, every account answers pings, the
\* prober runs and deletes the pings left unanswered, the clock moves by the
\* prober's wait
NextPings ==
    \/ Attach(ExpiryPlan)
    \/ Ping({"alice", "bob", BadToken}, PingHandles)
    \/ \E tok \in Tokens, pingId \in PingIds : RespondPing(tok, pingId)
    \/ Probe({"alice", "bob"}, {"alice", "bob"})
    \/ ticks < MaxTicks /\ Tick(PROBE_WAIT_MS)

SpecPings == Init /\ [][NextPings]_vars

\* Two friends opening to each other: alice and bob attach one client each
\* and become friends; both open requests, every account replies and
\* completes
NextDuplex ==
    \/ Attach(ExpiryPlan)
    \/ SendFriendRequest("alice", "bob")
    \/ RespondToFriendRequest("bob", 1, "accepted")
    \/ Open({"alice", "bob"})
    \/ Reply(Answers)
    \/ Complete

SpecDuplex == Init /\ [][NextDuplex]_vars

\* The result of the prober: alice attaches one client and bob two; alice
\* probes bob's sessions and sends pings of her own, bob and carol answer
\* pings, the clock moves by the prober's wait
NextProbeResult ==
    \/ Attach(ProbePlan)
    \/ Probe({"alice"}, {"bob"})
    \/ Ping({"alice"}, PingHandles)
    \/ \E tok \in {"bob", "carol"}, pingId \in PingIds : RespondPing(tok, pingId)
    \/ ticks < MaxTicks /\ Tick(PROBE_WAIT_MS)

SpecProbeResult == Init /\ [][NextProbeResult]_vars

\* The heartbeat loop of alice's browser: initializeSession runs up to
\* twice, the timers tick, her sessions are deactivated from elsewhere,
\* cleanupSession runs, and the clock moves by the period of the timer
NextHeartbeatLoop ==
    \/ Attach(ClientPlan)
    \/ \E h \in 1..Len(ClientPlan) : InitializeSessionResume(h)
    \/ \E i \in 1..Len(ClientPlan) : PingOk(i)
    \/ \E i \in 1..Len(ClientPlan) : PingFail(i)
    \/ \E i \in 1..Len(ClientPlan) : PingCatch(i)
    \/ CleanupSession
    \/ Detach({ClientToken})
    \/ ticks < MaxTicks /\ Tick(PING_PERIOD_MS)

SpecHeartbeatLoop == Init /\ [][NextHeartbeatLoop]_vars

\* The initiator's chat component: alice and bob attach one client each
\* and become friends; alice opens requests, the component is mounted for
\* one of them and receives the results of its query; every account
\* replies and completes
NextChat ==
    \/ Attach(ExpiryPlan)
    \/ SendFriendRequest("alice", "bob")
    \/ RespondToFriendRequest("bob", 1, "accepted")
    \/ Open({"alice"})
    \/ Reply(Answers)
    \/ Complete
    \/ \E rid \in RequestIds : ChatMount(rid)
    \/ ChatObserve

SpecChat == Init /\ [][NextChat]_vars

\* Requests while the sessions of their openers change: alice attaches one
\* client, bob two and carol one, alice and bob become friends, open
\* requests and deactivate sessions
NextSessionChange ==
    \/ Attach(SessionPlan)
    \/ SendFriendRequest("alice", "bob")
    \/ RespondToFriendRequest("bob", 1, "accepted")
    \/ Open({"alice", "bob"})
    \/ Detach({"alice", "bob"})

SpecSessionChange == Init /\ [][NextSessionChange]_vars

\* MainChatInterface.tsx:112-120  the client of a stored session answers
\* every ping getIncoming lists for it (livePings.ts:70-85), with the token
\* of the session's owner
AnswerIncomingPing ==
    \E p \in livePings :
        /\ p.status = "sent"
        /\ SessionById(p.targetSessionId) # NoSession
        /\ RespondPing(SessionById(p.targetSessionId).userId, p.id)

\* Probing of a responsive client: alice and bob attach one client each,
\* alice runs getFriendActiveSessions for bob, also while an earlier call
\* of hers waits, bob's client answers every ping listed for it, and the
\* clock moves by the prober's wait only when no ping is left unanswered
NextResponsive ==
    \/ Attach(ExpiryPlan)
    \/ Probe({"alice"}, {"bob"})
    \/ AnswerIncomingPing
    \/ /\ ticks < MaxTicks
       /\ \A p \in livePings :
              p.status = "sent" => SessionById(p.targetSessionId) = NoSession
       /\ Tick(PROBE_WAIT_MS)

SpecResponsive == Init /\ [][NextResponsive]_vars

\* The peerConnections path alone: alice and bob attach one client each
\* and call its mutations with any stored or unknown handle; the clock
\* moves past the two ages cleanupOldConnections compares with
NextPeer ==
    \/ Attach(ExpiryPlan)
    \/ \E tok \in {"alice", "bob", BadToken}, sessionId, targetSessionId \in PingHandles :
          /\ CreateOfferOutcome(tok, sessionId, targetSessionId) = OK
                => nextConnection <= MaxConnections
          /\ CreateConnectionOffer(tok, sessionId, targetSessionId)
    \/ \E tok \in {"alice", "bob", BadToken}, connectionId \in ConnectionIds :
          DisconnectConnection(tok, connectionId)
    \/ \E tok \in {"alice", "bob", BadToken}, connectionId \in ConnectionIds,
          status \in {"offered", "connected", "disconnected"} :
          UpdateConnectionStatus(tok, connectionId, status)
    \/ CleanupOldConnections
    \/ \E d \in {ONE_HOUR_MS + 1, ONE_DAY_MS} : ticks < MaxTicks /\ Tick(d)

SpecPeer == Init /\ [][NextPeer]_vars

\* alice's MainChatInterface: alice and bob attach one client each and
\* create offers between their sessions; alice opens the friend selector,
\* her client accepts incoming offers, the data channel opens, she leaves
NextMain ==
    \/ Attach(ExpiryPlan)
    \/ \E tok \in {"alice", "bob"}, sessionId, targetSessionId \in PingHandles :
          /\ tok = ClientToken => isFriendSelectorOpen
          /\ CreateOfferOutcome(tok, sessionId, targetSessionId) = OK
                => nextConnection <= MaxConnections
          /\ CreateConnectionOffer(tok, sessionId, targetSessionId)
    \/ Len(acceptedOffers) < MaxAccepts /\ IncomingOffersEffect
    \/ OpenFriendSelector
    \/ \E connectionId \in ConnectionIds : StartChatWithFriend(connectionId)
    \/ HandleWebRTCConnectionReady
    \/ HandleLeaveConnection

SpecMain == Init /\ [][NextMain]_vars

\* A chat mounted as receiver: the parent passes other offerData and
\* request ids at any time, the effects run in any order and as often as
\* they are enabled, createAnswer resolves or rejects
NextReceiver ==
    \/ \E props \in ReceiverProps : ReceiverMount(props[1], props[2])
    \/ \E props \in ReceiverProps : ReceiverPropsChange(props[1], props[2])
    \/ UpdateActualRequestId
    \/ Len(answering) + replies < MaxReplies /\ ProcessOfferEffect
    \/ AnswerCreated
    \/ AnswerFailed
    \/ ReceiverCleanup

SpecReceiver == Init /\ [][NextReceiver]_vars

\* Accounts alone: names are typed with and without surrounding blanks
NextAccounts ==
    \E username \in RawNames : Len(users) < MaxUsers /\ SignUp(username)

SpecAccounts == Init /\ [][NextAccounts]_vars

\* The friend graph alone: alice and bob send each other requests and remove
\* each other; every account, carol and a bad token included, responds
NextFriends ==
    \/ \E tok \in FriendTokens, name \in FriendNames :
          /\ SendFriendOutcome(tok, name) = OK => Len(friendRequests) < MaxFriendRows
          /\ SendFriendRequest(tok, name)
    \/ \E tok \in Tokens, rid \in 1..MaxFriendRows,
          response \in {"accepted", "rejected"} :
            RespondToFriendRequest(tok, rid, response)
    \/ \E tok \in FriendTokens, u \in FriendNames \cap Users : RemoveFriend(tok, u)

SpecFriends == Init /\ [][NextFriends]_vars

\* ================================================================ claims
\* The failure kinds of the design, as the handlers word them
Forbidden == "You can only connect to friends"
InvalidState == "Request is not in a 'sent' state."
DuplicateRequest == "Connection request already pending"
ReplyUnauthorized == "Not authorized to respond to this request"
CheckUnauthorized == "Not authorized to check this request"
RequestNotFound == "Request not found"

\* The sessions an account holds
SessionsOf(u) == {s.sessionId : s \in {t \in sessions : t.userId = u /\ t.isActive}}

\* No friendships row joins a and b, in either stored order
NoEdge(a, b) ==
    \A i \in 1..Len(friendships) :
        {friendships[i].user1Id, friendships[i].user2Id} # {a, b}

\* tok holds a session, sid is a live session, and its owner has no edge
\* with tok
StrangerTarget(tok, sid) ==
    /\ SessionsOf(tok) # {}
    /\ \E s \in sessions : s.sessionId = sid /\ s.isActive /\ NoEdge(tok, s.userId)

\* C1: sendConnectionRequest toward a live session whose owner has no
\* friendships row with the caller answers "You can only connect to
\* friends", whatever friend requests, acceptances, rejections and unfriend
\* calls came before; and no step inserts a connectionRequests row between
\* accounts that no friendships row joins.
C1_StrangerIsForbidden ==
    /\ [](\A tok \in Users, sid \in SessionIds :
             StrangerTarget(tok, sid) => SendOutcome(tok, sid) = Forbidden)
    /\ [][\A r \in connectionRequests' \ connectionRequests :
             \E s \in sessions :
                 s.sessionId = r.toSessionId /\ ~NoEdge(r.fromUsername, s.userId)]_vars

\* alice and bob were friends, one of them ended it, both are attached: the
\* open toward the former friend is refused (and so is one toward carol)
C1_Witness ==
    /\ Len(friendRequests) = 1
    /\ friendRequests[1].status = "accepted"
    /\ friendships = <<>>
    /\ \E s \in sessions :
          /\ s.userId = friendRequests[1].toUserId
          /\ StrangerTarget(friendRequests[1].fromUserId, s.sessionId)
          /\ SendOutcome(friendRequests[1].fromUserId, s.sessionId) = Forbidden

\* The account owning the session a request is addressed to ("" when the
\* session is gone)
TargetOwner(r) == SessionById(r.toSessionId).userId

Rank(status) ==
    CASE status = "sent" -> 1
      [] status = "replied" -> 2
      [] status = "completed" -> 3

\* C3: in every step of open, reply, complete and the sweep, a request that
\* is still stored keeps its status or moves it forward in the order
\* sent < replied < completed.
C3_StatusMonotonic ==
    [][\A r \in connectionRequests : \A r2 \in connectionRequests' :
           r2.id = r.id => Rank(r2.status) >= Rank(r.status)]_vars

\* A request that went through sent, replied and completed, after a sweep
C3_Witness ==
    /\ sweptAt >= 0
    /\ \E r \in connectionRequests :
          r.status = "completed" /\ r.responseData \in Answers

\* Two stored requests of one ordered (source session, target session) pair
SamePair(r1, r2) ==
    r1.fromSessionId = r2.fromSessionId /\ r1.toSessionId = r2.toSessionId

Outstanding(r) == r.status \in {"sent", "replied"}

\* C4: there is at most one request in status "sent" or "replied" for an
\* ordered (source session, target session) pair, and an open call for a pair
\* that has a replied request answers "Connection request already pending".
C4_OneOutstandingPerPair ==
    /\ \A r1, r2 \in connectionRequests :
          SamePair(r1, r2) /\ Outstanding(r1) /\ Outstanding(r2) => r1.id = r2.id
    /\ \A r \in connectionRequests, tok \in Users :
          /\ r.status = "replied"
          /\ FirstActiveSession(tok) # NoSession
          /\ FirstActiveSession(tok).sessionId = r.fromSessionId
          => SendOutcome(tok, r.toSessionId) = DuplicateRequest

\* The accounts owning the two sessions a request names
Participants(r) ==
    {s.userId : s \in {t \in sessions :
                          t.sessionId \in {r.fromSessionId, r.toSessionId}}}

\* C5: a complete or a reply call made with the token of an account that
\* owns neither session of a request leaves the request unchanged.
C5_ThirdPartyCannotMutate ==
    [][\A tok \in Users, r \in connectionRequests :
           tok \notin Participants(r) =>
               /\ MarkConnectionCompleted(tok, r.id) => RequestById(r.id)' = r
               /\ \A answer \in Answers :
                      ReplyToConnectionRequest(tok, r.id, answer) =>
                          RequestById(r.id)' = r]_vars

\* a and b each hold one session and are friends
Paired(a, b) ==
    /\ a # b
    /\ Cardinality(SessionsOf(a)) = 1
    /\ Cardinality(SessionsOf(b)) = 1
    /\ VerifyFriendship(a, b)

\* The stored requests from session s1 to session s2 in a status
Between(s1, s2, status) ==
    {r \in connectionRequests :
        r.fromSessionId = s1 /\ r.toSessionId = s2 /\ r.status = status}

\* C6: with a holding session s1, b holding session s2 and a friendship
\* between them, every stage of the handshake succeeds: a opens a request to
\* s2 (none pending), b's getSentConnectionRequests(s2) contains it with the
\* offer, b's reply succeeds, a's checkConnectionRequestStatus then returns
\* status "replied" with exactly b's answer, either of them completes it, and
\* afterwards both read status "completed".  (A call that fails changes
\* nothing, so the steps that change the stored requests are the calls that
\* succeed.)
C6_Handshake ==
    /\ [](\A a \in Users, b \in Users :
             Paired(a, b) =>
             \A s1 \in SessionsOf(a), s2 \in SessionsOf(b) :
                /\ Between(s1, s2, "sent") = {} => SendOutcome(a, s2) = OK
                /\ \A r \in Between(s1, s2, "sent") :
                      /\ SentRequestsOutcome(b, s2) = OK
                      /\ r \in GetSentConnectionRequests(b, s2)
                      /\ r.requestData \in Offers
                      /\ ReplyOutcome(b, r.id) = OK
                /\ \A r \in Between(s1, s2, "replied") :
                      /\ CheckConnectionRequestStatus(a, r.id) = r
                      /\ CompleteOutcome(a, r.id) = OK
                      /\ CompleteOutcome(b, r.id) = OK
                /\ \A r \in Between(s1, s2, "completed") :
                      /\ CheckConnectionRequestStatus(a, r.id) = r
                      /\ CheckConnectionRequestStatus(b, r.id) = r)
    /\ [][connectionRequests' # connectionRequests =>
           \A a \in Users, b \in Users :
             Paired(a, b) =>
             \A s1 \in SessionsOf(a), s2 \in SessionsOf(b) :
                /\ \A offer \in Offers :
                      SendOutcome(a, s2) = OK /\ SendConnectionRequest(a, s2, offer) =>
                          \E r \in GetSentConnectionRequests(b, s2)' :
                              /\ r.id = nextRequest
                              /\ r.fromSessionId = s1
                              /\ r.requestData = offer
                /\ \A r \in Between(s1, s2, "sent"), answer \in Answers :
                      ReplyToConnectionRequest(b, r.id, answer) =>
                          CheckConnectionRequestStatus(a, r.id)' =
                              [r EXCEPT !.status = "replied",
                                        !.responseData = answer]
                /\ \A r \in Between(s1, s2, "replied"), tok \in {a, b} :
                      MarkConnectionCompleted(tok, r.id) =>
                          /\ CheckConnectionRequestStatus(a, r.id)' =
                                 [r EXCEPT !.status = "completed"]
                          /\ CheckConnectionRequestStatus(b, r.id)' =
                                 [r EXCEPT !.status = "completed"]]_vars

\* alice on session 1 and bob on session 2 have completed a handshake
C6_Witness ==
    /\ Paired("alice", "bob")
    /\ SessionsOf("alice") = {1} /\ SessionsOf("bob") = {2}
    /\ \E r \in Between(1, 2, "completed") :
          /\ r.requestData \in Offers
          /\ r.responseData \in Answers
          /\ CheckConnectionRequestStatus("alice", r.id).status = "completed"
          /\ CheckConnectionRequestStatus("bob", r.id).status = "completed"

\* C7: a reply to a request in status "sent" succeeds when the caller owns
\* the session the request is addressed to, whichever of the caller's
\* sessions that is, and fails otherwise.
C7_OwnerOfTargetMayReply ==
    \A r \in connectionRequests, tok \in Users :
        r.status = "sent" =>
            IF TargetOwner(r) = tok
            THEN ReplyOutcome(tok, r.id) = OK
            ELSE ReplyOutcome(tok, r.id) # OK

\* C8: checkConnectionRequestStatus returns a request only to a caller who
\* holds the request's source or target session; a caller whose sessions are
\* neither is answered "Not authorized to check this request", and a caller
\* without a session gets no request either.
C8_OnlyParticipantsRead ==
    \A tok \in Users, r \in connectionRequests :
        LET mine == SessionsOf(tok) \cap {r.fromSessionId, r.toSessionId}
        IN  /\ CheckConnectionRequestStatus(tok, r.id) # NoRequest => mine # {}
            /\ SessionsOf(tok) # {} /\ mine = {} =>
                  /\ CheckStatusOutcome(tok, r.id) = CheckUnauthorized
                  /\ CheckConnectionRequestStatus(tok, r.id) = NoRequest
            /\ SessionsOf(tok) = {} =>
                  CheckConnectionRequestStatus(tok, r.id) = NoRequest

\* carol, on a session of her own, asks for a request between alice and bob
C8_Witness ==
    \E r \in connectionRequests :
        /\ SessionsOf("carol") # {}
        /\ SessionsOf("carol") \cap {r.fromSessionId, r.toSessionId} = {}
        /\ CheckStatusOutcome("carol", r.id) = CheckUnauthorized
        /\ \E tok \in Users : CheckConnectionRequestStatus(tok, r.id) = r

\* C9: getSentConnectionRequests returns requests only to the account that
\* owns the session handle it is called with.
C9_OnlyOwnerLists ==
    \A tok \in Users, sid \in SessionIds :
        GetSentConnectionRequests(tok, sid) # {} =>
            SessionById(sid).userId = tok

\* The ids of the requests that were created and are stored no more
SweptIds == {id \in 1..(nextRequest - 1) : RequestById(id) = NoRequest}

\* C10: the sweep removes every request that is in status "sent" and was
\* created more than five minutes ago: right after it,
\* checkConnectionRequestStatus on the id of such a request answers
\* "Request not found" and getSentConnectionRequests on its target does not
\* contain it, and no such request is stored while the clock stands where
\* the sweep ran.
C10_SweptRequestUnreachable ==
    /\ [](/\ sweptAt = now =>
                \A r \in connectionRequests :
                    ~(r.status = "sent" /\ r.createdAt < now - EXPIRY_MS)
          /\ \A id \in SweptIds, tok \in Users :
                /\ SessionsOf(tok) # {} =>
                      CheckStatusOutcome(tok, id) = RequestNotFound
                /\ \A sid \in SessionIds :
                      \A r \in GetSentConnectionRequests(tok, sid) : r.id # id)
    /\ [][CleanupExpiredRequests =>
             \A r \in connectionRequests :
                 r.status = "sent" /\ r.createdAt < now - EXPIRY_MS =>
                     \A tok \in Users :
                         /\ SessionsOf(tok) # {} =>
                               CheckStatusOutcome(tok, r.id)' = RequestNotFound
                         /\ r \notin GetSentConnectionRequests(tok, r.toSessionId)']_vars

\* A request was swept: alice asks for it and is told it is not found
C10_Witness ==
    /\ sweptAt = now
    /\ \E id \in SweptIds :
          /\ CheckStatusOutcome("alice", id) = RequestNotFound
          /\ \A r \in GetSentConnectionRequests("bob", 2) : r.id # id

\* The staleness threshold.  The code has no threshold on the paths below;
\* the largest window any of its read paths applies (sessions.ts:155) is
\* taken, so a session that is stale here is stale under every smaller one.
StalenessThreshold == ONE_HOUR_MS

\* A session is live: active and its last heartbeat is younger than the
\* threshold
Live(s) == s.isActive /\ now - s.lastPing < StalenessThreshold

LiveSessionsOf(u) == {s.sessionId : s \in {t \in sessions : t.userId = u /\ Live(t)}}

TargetUnavailable == "Target session not found or inactive"
NoSourceSession == "No active session found for requesting user"

\* The target of an open call is live
LiveTarget(sid) == \E s \in sessions : s.sessionId = sid /\ Live(s)

\* C11: an open call by an account with a live session, addressed to a
\* session that is not live (missing, inactive, or with a last heartbeat
\* older than the threshold), answers "Target session not found or inactive".
C11_StaleTargetRejected ==
    \A tok \in Users, sid \in SessionIds :
        LiveSessionsOf(tok) # {} /\ ~LiveTarget(sid) =>
            SendOutcome(tok, sid) = TargetUnavailable

\* C12: an open call reports the first violated precondition in the order
\* (1) the caller has a live source session, (2) the target session is live,
\* (3) the owners are friends, (4) no request of the pair is pending.
C12_FirstViolatedReported ==
    \A tok \in Users, sid \in SessionIds :
        SendOutcome(tok, sid) =
            IF LiveSessionsOf(tok) = {} THEN NoSourceSession
            ELSE IF ~LiveTarget(sid) THEN TargetUnavailable
            ELSE IF ~VerifyFriendship(tok, SessionById(sid).userId) THEN Forbidden
            ELSE IF ExistingSentRequest(FirstActiveSession(tok).sessionId, sid)
                 THEN DuplicateRequest
            ELSE OK

NotYourSession == "Session does not belong to this user"

\* C13: updateSessionPing on a session of another account answers "Session
\* does not belong to this user", and such a call changes no session row.
C13_ForeignHeartbeatRejected ==
    /\ [](\A s \in sessions : \A tok \in Users \ {s.userId} :
             UpdatePingOutcome(tok, s.sessionId) = NotYourSession)
    /\ [][\A s \in sessions : \A tok \in Users \ {s.userId} :
             UpdateSessionPing(tok, s.sessionId) => UNCHANGED sessions]_vars

\* alice calls updateSessionPing on a session of another account whose last
\* heartbeat lies in the past
C13_Witness ==
    \E s \in sessions :
        /\ s.userId # "alice"
        /\ s.lastPing < now
        /\ UpdatePingOutcome("alice", s.sessionId) = NotYourSession

\* C14: getUserSessions lists a session of the caller if and only if the
\* session is active and its last heartbeat is younger than the threshold.
C14_ListedIffLive ==
    \A tok \in Users, s \in sessions :
        s.userId = tok =>
            ([sessionId |-> s.sessionId, lastPing |-> s.lastPing]
                 \in GetUserSessions(tok)
             <=> Live(s))

\* The handles of the sessions that were created and are stored no more
GoneSessions == {sid \in 1..(nextSession - 1) : SessionById(sid) = NoSession}

\* C16: deactivateSession deletes a session of the caller; on a handle that
\* is gone or never existed it succeeds and changes nothing; on a session of
\* another account it answers "Session does not belong to this user" and the
\* row remains.
C16_DeactivateIdempotent ==
    /\ [](\A tok \in Tokens, sid \in SessionIds :
             DeactivateOutcome(tok, sid) =
                 IF SessionById(sid) # NoSession /\ SessionById(sid).userId # tok
                 THEN NotYourSession
                 ELSE OK)
    /\ [][\A tok \in Tokens, sid \in SessionIds :
             DeactivateSession(tok, sid) =>
                 IF SessionById(sid) # NoSession /\ SessionById(sid).userId = tok
                 THEN sessions' = sessions \ {SessionById(sid)}
                 ELSE UNCHANGED sessions]_vars

\* bob deactivated one of his two sessions (the sweep has deleted nothing
\* yet): the same call again succeeds, and alice's call on bob's other
\* session is refused
C16_Witness ==
    /\ now < ONE_HOUR_MS
    /\ \E gone \in GoneSessions, s \in sessions :
          /\ s.userId = "bob"
          /\ DeactivateOutcome("bob", gone) = OK
          /\ DeactivateOutcome("alice", s.sessionId) = NotYourSession

\* C15: a session row is changed or deleted only by updateSessionPing or
\* deactivateSession called with the token of the account that owns it, or
\* by the sweep of old sessions.
C15_OnlyOwnerWritesSession ==
    [][\A s \in sessions :
           s \notin sessions' =>
               \/ UpdateSessionPing(s.userId, s.sessionId)
               \/ DeactivateSession(s.userId, s.sessionId)
               \/ s \in OldSessions /\ CleanupOldSessions]_vars

RequestExists == "Friend request already exists"

\* C17: right after a successful sendFriendRequest from a to b, a
\* sendFriendRequest from b to a answers "Friend request already exists".
C17_ReverseRequestRefused ==
    [][\A a \in Users, b \in Users :
           SendFriendOutcome(a, b) = OK /\ SendFriendRequest(a, b) =>
               SendFriendOutcome(b, a)' = RequestExists]_vars

\* The friendRequests rows between a and b, in either direction, that are
\* pending
PendingBetween(a, b) ==
    {i \in 1..Len(friendRequests) :
        /\ {friendRequests[i].fromUserId, friendRequests[i].toUserId} = {a, b}
        /\ friendRequests[i].status = "pending"}

\* C18: there is at most one pending friendRequests row between two
\* accounts, counting both directions.
C18_OnePendingPerPair ==
    \A a \in Users, b \in Users : Cardinality(PendingBetween(a, b)) <= 1

\* The friendships rows that join a and b
EdgesBetween(a, b) ==
    {i \in 1..Len(friendships) :
        {friendships[i].user1Id, friendships[i].user2Id} = {a, b}}

\* C19: accepting a pending request leaves exactly one friendships row for
\* the pair, found by verifyFriendship in both orders, and there is never
\* more than one friendships row for a pair.
C19_OneEdgePerPair ==
    /\ [](\A a \in Users, b \in Users : Cardinality(EdgesBetween(a, b)) <= 1)
    /\ [][\A i \in 1..Len(friendRequests) :
             LET r == friendRequests[i]
             IN  RespondFriendOutcome(r.toUserId, i) = OK
                 /\ RespondToFriendRequest(r.toUserId, i, "accepted") =>
                     /\ Cardinality(EdgesBetween(r.fromUserId, r.toUserId)') = 1
                     /\ VerifyFriendship(r.fromUserId, r.toUserId)'
                     /\ VerifyFriendship(r.toUserId, r.fromUserId)']_vars

NotForYou == "Unauthorized: This friend request is not for you"
AlreadyResponded == "Friend request already responded to"

\* C20: respondToFriendRequest by an account that is not the recipient (the
\* sender included) answers "Unauthorized: This friend request is not for
\* you", by the recipient on a request that is not pending "Friend request
\* already responded to"; such a call changes no request and adds no
\* friendship, and the status of a request changes only away from pending.
C20_RespondGuards ==
    /\ [](\A i \in 1..Len(friendRequests), tok \in Users :
             /\ tok # friendRequests[i].toUserId =>
                    RespondFriendOutcome(tok, i) = NotForYou
             /\ tok = friendRequests[i].toUserId
                /\ friendRequests[i].status # "pending" =>
                    RespondFriendOutcome(tok, i) = AlreadyResponded)
    /\ [][\A i \in 1..Len(friendRequests) :
             /\ friendRequests'[i].status # friendRequests[i].status =>
                    friendRequests[i].status = "pending"
             /\ \A tok \in Users, response \in {"accepted", "rejected"} :
                    /\ \/ tok # friendRequests[i].toUserId
                       \/ friendRequests[i].status # "pending"
                    /\ RespondToFriendRequest(tok, i, response)
                    => UNCHANGED <<friendRequests, friendships>>]_vars

\* A request was accepted; its sender, a third account and its recipient
\* respond to it again
C20_Witness ==
    \E i \in 1..Len(friendRequests) :
        /\ friendRequests[i].status = "accepted"
        /\ RespondFriendOutcome(friendRequests[i].fromUserId, i) = NotForYou
        /\ RespondFriendOutcome("carol", i) = NotForYou
        /\ RespondFriendOutcome(friendRequests[i].toUserId, i) = AlreadyResponded

\* C21: removeFriend succeeds whether or not the caller and the other
\* account are joined by a friendships row, and after a removeFriend that
\* deleted a row verifyFriendship is false in both argument orders.
C21_UnfriendIdempotent ==
    /\ [](\A tok \in Users, u \in Users :
             tok # u => RemoveFriendOutcome(tok, u) = OK)
    /\ [][\A tok \in Users, u \in Users :
             /\ tok # u
             /\ RemoveFriendOutcome(tok, u) = OK
             /\ RemoveFriend(tok, u)
             => /\ ~VerifyFriendship(tok, u)'
                /\ ~VerifyFriendship(u, tok)']_vars

NotFoundUser == "User not found"
SelfRequest == "Cannot send friend request to yourself"
AlreadyFriends == "Already friends with this user"

\* C22: sendFriendRequest answers "User not found" for an unknown name,
\* "Cannot send friend request to yourself" for the caller's own name,
\* "Already friends with this user" when a friendships row joins the two
\* in either order, "Friend request already exists" when a pending request
\* between the two exists in either direction; and a call that is
\* refused inserts no friendRequests row.
C22_SendFriendRefusals ==
    /\ [](\A tok \in Users, name \in Usernames :
             SendFriendOutcome(tok, name) =
                 IF UserByName(name) = "" THEN NotFoundUser
                 ELSE IF UserByName(name) = tok THEN SelfRequest
                 ELSE IF EdgesBetween(tok, UserByName(name)) # {} THEN AlreadyFriends
                 ELSE IF PendingBetween(tok, UserByName(name)) # {} THEN RequestExists
                 ELSE OK)
    /\ [][\A tok \in Users, name \in Usernames :
             SendFriendOutcome(tok, name) # OK /\ SendFriendRequest(tok, name)
             => UNCHANGED friendRequests]_vars

\* The livePings rows from one pinger session to one target session
PingsOfPair(from, to) ==
    {p \in livePings : p.pingerSessionId = from /\ p.targetSessionId = to}

\* The ids of pings that were stored and are gone
GonePings == {id \in 1..(nextPing - 1) : PingById(id) = NoPing}

\* C23: there is never more than one livePings row from one pinger session
\* to one target session; a send leaves exactly one row for its pair, the
\* one it inserted; and respond on the id of a ping that is gone raises no
\* error and changes no row.
C23_OnePingPerPair ==
    /\ [](/\ \A p \in livePings, q \in livePings :
                 /\ p.pingerSessionId = q.pingerSessionId
                 /\ p.targetSessionId = q.targetSessionId
                 => p = q
          /\ \A tok \in Users, id \in GonePings : RespondPingOutcome(tok, id) = OK)
    /\ [][/\ \A tok \in Users, from \in PingHandles, to \in PingHandles :
                 SendPing(tok, from, to) /\ livePings' # livePings =>
                     PingsOfPair(from, to)' =
                         {[id |-> nextPing, pingerSessionId |-> from,
                           targetSessionId |-> to, status |-> "sent"]}
          /\ \A tok \in Users, id \in GonePings :
                 RespondPing(tok, id) => UNCHANGED livePings]_vars

\* Ping 1 was superseded by ping 2 (no prober has finished at time 0), and
\* the target's owner answers the superseded id
C23_Witness ==
    /\ now = 0
    /\ 1 \in GonePings
    /\ PingById(2) # NoPing
    /\ RespondPingOutcome(SessionById(PingById(2).targetSessionId).userId, 1) = OK

\* C24: a respond call made with the token of an account that does not own
\* the ping's target session leaves a ping in status sent as it is (stated
\* for the pings whose target session is stored).
C24_OnlyTargetOwnerResponds ==
    [][\A p \in livePings, tok \in Users :
           /\ p.status = "sent"
           /\ SessionById(p.targetSessionId) # NoSession
           /\ tok # SessionById(p.targetSessionId).userId
           /\ RespondPing(tok, p.id)
           => PingById(p.id)'.status = "sent"]_vars

SessionNotFound == "Session not found"

\* C25: updateSessionPing with a valid token on a handle that no sessions
\* row carries answers "Session not found" and creates no row; a
\* updateSessionPing that succeeds leaves the row with lastPing = now and
\* isActive = TRUE and every other row as it was.
C25_HeartbeatNotFoundOrFresh ==
    /\ [](\A tok \in Users, sid \in SessionIds :
             SessionById(sid) = NoSession =>
                 UpdatePingOutcome(tok, sid) = SessionNotFound)
    /\ [][\A tok \in Users, sid \in SessionIds :
             UpdateSessionPing(tok, sid) =>
                 IF SessionById(sid) = NoSession
                 THEN UNCHANGED sessions
                 ELSE UpdatePingOutcome(tok, sid) = OK =>
                      sessions' = (sessions \ {SessionById(sid)}) \cup
                          {[sessionId |-> sid, userId |-> tok,
                            isActive |-> TRUE, lastPing |-> now]}]_vars

\* A heartbeat moved lastPing of a session past that of a session created
\* after it, and a handle that was stored is gone and answers "Session not
\* found" to bob
C25_Witness ==
    /\ \E s \in sessions, t \in sessions :
           s.sessionId < t.sessionId /\ s.lastPing > t.lastPing /\ s.lastPing = now
    /\ \E gone \in GoneSessions : UpdatePingOutcome("bob", gone) = SessionNotFound

\* C27: while a request from s1 to s2 is in status sent, the friend holding
\* s2 opens a request to s1 with success (none of his own being sent), the
\* two requests are separate rows, and a step that changes or inserts one
\* request leaves every other request as it was.
C27_BidirectionalOpen ==
    /\ [](\A a \in Users, b \in Users :
             Paired(a, b) =>
             \A s1 \in SessionsOf(a), s2 \in SessionsOf(b) :
                 Between(s1, s2, "sent") # {} /\ Between(s2, s1, "sent") = {}
                 => SendOutcome(b, s1) = OK)
    /\ [][connectionRequests' # connectionRequests =>
           /\ \A r \in connectionRequests, q \in connectionRequests :
                 q.id # r.id /\ RequestById(q.id)' # q => RequestById(r.id)' = r
           /\ nextRequest' # nextRequest =>
                 /\ \A r \in connectionRequests : RequestById(r.id)' = r
                 /\ \E q \in connectionRequests' :
                        q.id = nextRequest /\ q.status = "sent"]_vars

\* bob opened to alice while alice's request to him was in status sent
\* (request 2 was created with request 1 still sent, being answered later
\* by answer2); one was completed with answer1 and the other is replied
\* with answer2
C27_Witness ==
    \E r \in connectionRequests, q \in connectionRequests :
        /\ r.fromSessionId = q.toSessionId
        /\ r.toSessionId = q.fromSessionId
        /\ r.status = "completed" /\ r.responseData = "answer1"
        /\ q.status = "replied" /\ q.responseData = "answer2"

\* A request is older than the expiry window
Older(r) == now - r.createdAt > EXPIRY_MS

\* C29: cleanupExpiredRequests deletes exactly the requests that are in
\* status "sent" and older than five minutes and leaves every other request
\* as it was; after it, the account that had opened a deleted request opens
\* to the same target with success (both still holding their one session
\* and being friends), and the id it gets was never used before.
C29_SweepDeletesExactlyExpired ==
    /\ [](\A id \in 1..MaxRequests :
             id >= nextRequest => RequestById(id) = NoRequest /\ id \notin SweptIds)
    /\ [][CleanupExpiredRequests =>
             /\ connectionRequests' =
                    {r \in connectionRequests : ~(r.status = "sent" /\ Older(r))}
             /\ nextRequest' = nextRequest
             /\ \A r \in connectionRequests, a \in Users :
                    /\ r.status = "sent" /\ Older(r)
                    /\ SessionsOf(a) = {r.fromSessionId}
                    /\ Paired(a, TargetOwner(r))
                    => SendOutcome(a, r.toSessionId)' = OK]_vars

\* The sweep has just run: a request was deleted, a request as old as the
\* deleted one that had been answered is still stored, and alice opens again
C29_Witness ==
    /\ sweptAt = now
    /\ SweptIds # {}
    /\ \E r \in connectionRequests : r.status \in {"replied", "completed"} /\ Older(r)
    /\ SendOutcome("alice", 2) = OK

\* C30: getFriendActiveSessions called by an account holding a session sends
\* one ping to every active session of the account asked for; after its
\* wait it returns exactly the sessions whose ping is then in status
\* "responded" and leaves them stored, and it deletes the session of every
\* ping that is then missing or in status "sent".
C30_ProbeReturnsResponders ==
    [][/\ \A u \in Users :
             /\ FirstActiveSession("alice") # NoSession
             /\ GetFriendActiveSessionsStart("alice", u)
             /\ probes' # probes
             => \E probe \in probes' \ probes :
                   /\ {pp.sessionId : pp \in probe.pings} =
                          {s.sessionId : s \in ActiveSessionsOf(u)}
                   /\ \A pp \in probe.pings :
                          [id |-> pp.pingId,
                           pingerSessionId |-> FirstActiveSession("alice").sessionId,
                           targetSessionId |-> pp.sessionId,
                           status |-> "sent"] \in livePings'
       /\ \A probe \in probes :
             GetFriendActiveSessionsFinish(probe) =>
                 /\ now >= probe.startedAt + PROBE_WAIT_MS
                 /\ \A pp \in probe.pings :
                        IF PingById(pp.pingId).status = "responded"
                        THEN /\ pp.sessionId \in ProbeResult(probe)
                             /\ SessionById(pp.sessionId)' = SessionById(pp.sessionId)
                        ELSE /\ pp.sessionId \notin ProbeResult(probe)
                             /\ SessionById(pp.sessionId)' = NoSession]_vars

\* alice's one call pinged both sessions of bob and has returned: session 2,
\* whose ping was answered, is stored, and session 3, whose ping was not, is
\* gone
C30_Witness ==
    /\ probes = {}
    /\ SessionById(2) # NoSession
    /\ 3 \in GoneSessions
    /\ \E p \in livePings : p.targetSessionId = 2 /\ p.status = "responded"

\* C26: in useSession, the catch block that follows a rejected
\* updateSessionPing sets isSessionActive to false and leaves no timer for
\* the session of the rejected call; the only timer running is the one the
\* ref holds; a timer that was cleared is never started again, a timer is
\* started and isSessionActive set to true only by the continuation of
\* initializeSession, for the session createSession has just returned; and
\* updateSessionPing is called for sessions with a running timer only.
C26_FailedHeartbeatStopsLoop ==
    /\ [](intervals \subseteq {hook.pingIntervalRef})
    /\ [][/\ \A i \in pingFailures :
                PingCatch(i) => ~hook'.isSessionActive /\ i \notin intervals'
          /\ \A i \in intervals' \ intervals :
                i \notin initialized /\ InitializeSessionResume(i)
          /\ ~hook.isSessionActive /\ hook'.isSessionActive =>
                \E h \in CreatedSessions : InitializeSessionResume(h)
          /\ \A i \in 1..Len(ClientPlan) :
                PingOk(i) \/ PingFail(i) => i \in intervals]_vars

\* The catch block has run for the session the hook holds: it is reported
\* not live and no timer is left, while the session is still stored at the
\* server or is gone
C26_Witness ==
    /\ hook.sessionId # 0
    /\ hook.sessionId \in initialized
    /\ ~hook.isSessionActive
    /\ intervals = {}
    /\ pingFailures = {}

\* C28: when the result of checkConnectionRequestStatus the initiator's
\* component holds is in status "completed" and carries an answer, the
\* component has applied that answer to its connection.
C28_CompletedStillDeliversAnswer ==
    /\ chat.snapshot.status = "completed"
    /\ chat.snapshot.responseData # NoData
    => chat.remoteAnswer = chat.snapshot.responseData

\* C32: every friendships row has the account with the lower id as user1Id
\* and the one with the higher id as user2Id.
C32_EdgesCanonical ==
    \A i \in 1..Len(friendships) :
        UserId[friendships[i].user1Id] < UserId[friendships[i].user2Id]

\* A request sent by bob (the higher id) and one sent by alice were both
\* accepted, and a friendships row is stored
C32_Witness ==
    /\ Len(friendships) > 0
    /\ \E i \in 1..Len(friendRequests), j \in 1..Len(friendRequests) :
          /\ friendRequests[i].status = "accepted"
          /\ friendRequests[i].fromUserId = "bob"
          /\ friendRequests[j].status = "accepted"
          /\ friendRequests[j].fromUserId = "alice"

\* C33: every friendships row has a friendRequests row in status accepted
\* between the same two accounts; a friendships row is inserted only in the
\* step that moves a pending request to accepted, and it is the row of that
\* request's pair; a response of rejected inserts none.
C33_EdgeOnlyByAcceptance ==
    /\ [](\A i \in 1..Len(friendships) :
             \E j \in 1..Len(friendRequests) :
                 /\ friendRequests[j].status = "accepted"
                 /\ {friendRequests[j].fromUserId, friendRequests[j].toUserId} =
                        {friendships[i].user1Id, friendships[i].user2Id})
    /\ [][/\ Len(friendships') > Len(friendships) =>
                \E j \in 1..Len(friendRequests) :
                    /\ friendRequests[j].status = "pending"
                    /\ friendRequests'[j].status = "accepted"
                    /\ friendships' =
                           Append(friendships,
                                  CanonicalEdge(friendRequests[j].fromUserId,
                                                friendRequests[j].toUserId))
          /\ \A j \in 1..Len(friendRequests) :
                /\ friendRequests[j].status = "pending"
                /\ friendRequests'[j].status = "rejected"
                => UNCHANGED friendships]_vars

\* One request was rejected and one accepted, and the one friendships row
\* stored is that of the accepted one
C33_Witness ==
    /\ Len(friendships) = 1
    /\ \E i \in 1..Len(friendRequests), j \in 1..Len(friendRequests) :
          /\ friendRequests[i].status = "rejected"
          /\ friendRequests[j].status = "accepted"

\* C38: checkConnectionRequestStatus called by the account that opened a
\* stored request succeeds and returns the request.
C38_OpenerCanAlwaysRead ==
    \A r \in connectionRequests :
        /\ CheckStatusOutcome(r.fromUsername, r.id) = OK
        /\ CheckConnectionRequestStatus(r.fromUsername, r.id) = r

\* C31: when the client of every session answers each ping before the
\* prober's wait is over, a getFriendActiveSessions call that returns
\* deletes no session.
C31_ResponsiveSessionSurvives ==
    [][\A probe \in probes :
           GetFriendActiveSessionsFinish(probe) => sessions' = sessions]_vars

\* C34: no two users rows have the same username, and a signUp whose
\* trimmed name is the username of a stored row fails with "Username
\* already taken", also when the name is typed with surrounding blanks.
C34_UsernamesUnique ==
    /\ \A i, j \in 1..Len(users) :
           i # j => users[i].username # users[j].username
    /\ \A username \in RawNames :
           UserByUsername(Trim(username)) # {}
               => SignUpOutcome(username) = "Username already taken"

\* Two accounts are stored and a stored name typed with a leading blank is
\* refused
C34_Witness ==
    /\ Len(users) >= 2
    /\ \E i \in 1..Len(users) :
           /\ users[i].username = <<"a">>
           /\ SignUpOutcome(<<" ", "a">>) = "Username already taken"
           /\ SignUpOutcome(<<"a", " ">>) = "Username already taken"

\* C39: at most one peerConnections row per ordered pair (sessionId,
\* targetSessionId) has status offered or connected.
C39_OneOpenRowPerPair ==
    \A c, d \in peerConnections :
        (/\ c.sessionId = d.sessionId
         /\ c.targetSessionId = d.targetSessionId
         /\ c.status \in OpenStatuses
         /\ d.status \in OpenStatuses) => c = d

\* C35: the incoming offers effect hands no connectionId to
\* handleConnectionEstablished twice, also after the user left the
\* connection while the offer is still listed.
C35_OfferAcceptedOnce ==
    \A i, j \in 1..Len(acceptedOffers) :
        i # j => acceptedOffers[i] # acceptedOffers[j]

\* C36: pendingConnection and activeConnection of MainChatInterface are
\* never both set.
C36_PendingOrActive ==
    ~(pendingConnection # NoPeer /\ activeConnection # NoPeer)

\* C37: a chat mounted as receiver calls replyToConnectionRequest at most
\* once, and no second processIncomingOffer call is under way, whatever
\* offerData and request ids the effect is run with.
C37_ReplyAtMostOnce ==
    /\ replies <= 1
    /\ Len(answering) + replies <= 1
    /\ replies + Len(answering) = 1 => receiver.hasProcessedOffer

\* The reply was sent, and the props have changed to another offer and
\* another request id with the peer connection still open: the effect ran
\* again with everything but hasProcessedOfferRef letting it through
C37_Witness ==
    /\ replies = 1
    /\ receiver.hasPeerConnection
    /\ receiver.offerData = "offer2"
    /\ receiver.actualRequestId = 2
    /\ receiver.requestId = 2
====
